---- MODULE Spec2Model ----
(***************************************************************************)
(* Verification model of go-xsd (agentflare-ai/go-xsd).                    *)
(*                                                                         *)
(* The module holds several specifications over disjoint groups of         *)
(* variables:                                                              *)
(*   SpecResolve  - Schema.resolveReferences and the particle resolver     *)
(*                  resolveParticlesWithVisited, run as a step machine     *)
(*                  over a heap of *ModelGroup objects.                    *)
(*   SpecValidate - one Validator, Validate called on it more than once.   *)
(*   SpecMatch    - the content-model matcher on one document.             *)
(*   SpecFacet    - the length facets on one value.                        *)
(*   SpecCompile  - Parse: the loops of resolveReferences over the maps.   *)
(*   SpecLoader   - one SchemaLoader, LoadSchemaWithImports called on it   *)
(*                  more than once.                                        *)
(*   SpecCompat   - one call of isTypeCompatible.                          *)
(*   SpecWildcard - one wildcard namespace constraint matched against one  *)
(*                  element namespace.                                     *)
(*   SpecOccurs   - minOccurs/maxOccurs of one model group through the     *)
(*                  three compile entry points.                            *)
(*   SpecNormalize - NormalizeWhiteSpace applied twice to one value.       *)
(*   SpecTerminate - the activations of validateSequence on schemas that   *)
(*                  hold group references.                                 *)
(*   SpecCache    - SchemaCache.Get called by two goroutines.              *)
(* Each specification leaves the variables of the others untouched.        *)
(***************************************************************************)
EXTENDS Integers, Sequences, FiniteSets, TLC

VARIABLES
    \* ---- resolver (schema.go: resolveReferences) ----
    heap,       \* the *ModelGroup objects, by address 1..Len(heap)
    groups,     \* Schema.Groups: group QName -> address of its *ModelGroup
    content,    \* ComplexType.Content of every entry of Schema.TypeDefs
    elemTypes,  \* the complex types that are the Type of a global ElementDecl
    rpc,        \* position inside resolveReferences
    todo,       \* entries of the map being ranged over that are still to come
    stack,      \* the active calls of resolveParticlesWithVisited
    visited,    \* the visited map of the current resolveParticles call
    epoch,      \* number of writes to the heap so far
    runs        \* completed + started calls of resolveReferences

rvars == <<heap, groups, content, elemTypes, rpc, todo, stack, visited, epoch, runs>>

\* The validator (SpecValidate): one Validator over one compiled Schema.
VARIABLES
    vschema,      \* Validator.schema: the compiled Schema, "" before NewValidator
    vdoc,         \* the document of the last Validate call
    violations,   \* Validator.violations: the codes the last Validate returned
    ids,          \* Validator.ids: the keys of the ID map
    idRefs,       \* Validator.idRefs: the keys of the IDREF map
    keyValues,    \* IdentityConstraintValidator.keyValues: constraint -> key values
    calls         \* the number of Validate calls made on this Validator

vvars == <<vschema, vdoc, violations, ids, idRefs, keyValues, calls>>

\* The compiler (SpecCompile): Parse run on one schema document, more than
\* once.
VARIABLES
    cdoc,                 \* the schema document as parsed, before resolveReferences
    TypeDefs,             \* Schema.TypeDefs of the schema being compiled
    SubstitutionGroups,   \* Schema.SubstitutionGroups of the schema being compiled
    cpc,                  \* the loop of resolveReferences the compilation is in
    ctodo,                \* the keys the current range loop has not visited yet
    compiled              \* the Schemas returned by the Parse calls so far

cvars == <<cdoc, TypeDefs, SubstitutionGroups, cpc, ctodo, compiled>>

\* The loader (SpecLoader): one SchemaLoader, LoadSchemaWithImports called
\* on it more than once.  The calls are serialised by sl.mu.
VARIABLES
    loaded,      \* sl.loaded: resolved location -> the Schema Parse returned for it
    loading,     \* sl.loading: the resolved locations marked as being loaded
    combined,    \* sl.combined
    lstack,      \* the active calls of loadSchemaRecursive
    lpc,         \* the position of LoadSchemaWithImports
    ltodo,       \* the keys the current range loop has not visited yet
    lreq,        \* the location passed to the current LoadSchemaWithImports call
    lret,        \* what the last loadSchemaRecursive call that returned has returned
    logged,      \* the import errors handed to slog.Error
    lresult,     \* what the last LoadSchemaWithImports call has returned
    published,   \* the components reachable from the Schemas returned so far
    dirty,       \* the published components written to after their Schema was returned
    lcalls       \* the number of LoadSchemaWithImports calls started

lvars == <<loaded, loading, combined, lstack, lpc, ltodo, lreq, lret, logged, lresult,
           published, dirty, lcalls>>

\* The type-compatibility walk (SpecCompat): one call of isTypeCompatible.
VARIABLES
    tTypeDefs,   \* s.TypeDefs: type name -> the base its complexContent extends
    tStart,      \* the actualType isTypeCompatible was called with
    tActual,     \* actualType of the current activation
    tExpected,   \* expectedType
    tVisited,    \* visited
    tpc,         \* "call" while the walk runs, "done" once it has returned
    tResult      \* the value returned

tvars == <<tTypeDefs, tStart, tActual, tExpected, tVisited, tpc, tResult>>

\* The content-model matcher (SpecMatch): one Validate call of a new
\* Validator on a document whose root has the content model mGroup.
VARIABLES
    mGroup,       \* the *ModelGroup that is the Content of the root's complex type
    mChildren,    \* the names of the children of the root, in document order
    mViolations,  \* what Validate returned
    mpc           \* "call" before the Validate call, "done" after it

mvars == <<mGroup, mChildren, mViolations, mpc>>

\* The length facets (SpecFacet): one value checked against one simple type
\* that restricts a base by one length facet.
VARIABLES
    fValue,   \* the lexical value: a sequence of characters
    fType,    \* the *SimpleType: its Restriction's Base and Facets
    fErr,     \* the error returned, "" for nil
    fpc       \* "call" before the check, then the entry point that has returned

fvars == <<fValue, fType, fErr, fpc>>

\* The wildcard namespace constraint (SpecWildcard): one namespace attribute
\* value of an <xs:any> matched against the namespace of one element.
VARIABLES
    wValue,      \* the namespace attribute: its whitespace-separated tokens
    wNamespace,  \* the namespace URI of the element
    wTarget,     \* the target namespace of the schema
    wResult,     \* what Matches returned
    wpc          \* "call" before the match, "done" after it

wvars == <<wValue, wNamespace, wTarget, wResult, wpc>>

\* Occurrence bounds (SpecOccurs): one schema document whose complex type has
\* one model group with one element, compiled through one entry point.
VARIABLES
    oDoc,     \* the schema document: the group's kind and the lexical attributes
    oResult,  \* what the entry point returned: the error and the compiled group
    opc       \* "call" before the call, then the entry point that has returned

ovars == <<oDoc, oResult, opc>>

\* Whitespace normalisation (SpecNormalize): NormalizeWhiteSpace applied to one
\* value and then to its own result.
VARIABLES
    nValue,  \* the value: a sequence of characters
    nMode,   \* the whiteSpace facet value
    nOnce,   \* NormalizeWhiteSpace(nValue, nMode)
    nTwice,  \* NormalizeWhiteSpace(nOnce, nMode)
    npc      \* "call", then "once" and "twice" as the calls return

nvars == <<nValue, nMode, nOnce, nTwice, npc>>

\* The call stack of the sequence matcher (SpecTerminate): ModelGroup.Validate
\* on the children of one root element, with the activations of
\* validateSequence that the group-reference and nested-group branches open.
VARIABLES
    qSchema,    \* the compiled schema: its Groups and the content of the root's type
    qChildren,  \* the children of the root: their names
    qStack,     \* the active validateSequence calls, the innermost last
    qpc         \* "call", "run", then "done" or "stackOverflow"

qvars == <<qSchema, qChildren, qStack, qpc>>

\* The schema cache (SpecCache): one SchemaCache and the goroutines that call
\* Get on it, each with the stack of its Get and loadSchema calls.
VARIABLES
    scSchemas,  \* sc.schemas: resolved path -> the *schemaEntry stored for it
    scEntries,  \* the schemaEntry objects allocated so far: once, schema
    scParsed,   \* the paths handed to Parse so far; their index is the *Schema
    scStacks,   \* for each goroutine its active calls, the innermost last
    scReq,      \* the location each goroutine passes to Get
    scResult    \* what the goroutine's Get has returned

scvars == <<scSchemas, scEntries, scParsed, scStacks, scReq, scResult>>

vars == <<rvars, vvars, cvars, lvars, tvars, mvars, fvars, wvars, ovars, nvars, qvars, scvars>>

notResolve == <<vvars, cvars, lvars, tvars, mvars, fvars, wvars, ovars, nvars, qvars, scvars>>

notValidate == <<rvars, cvars, lvars, tvars, mvars, fvars, wvars, ovars, nvars, qvars, scvars>>

notCompile == <<rvars, vvars, lvars, tvars, mvars, fvars, wvars, ovars, nvars, qvars, scvars>>

notLoader == <<rvars, vvars, cvars, tvars, mvars, fvars, wvars, ovars, nvars, qvars, scvars>>

notCompat == <<rvars, vvars, cvars, lvars, mvars, fvars, wvars, ovars, nvars, qvars, scvars>>

notMatch == <<rvars, vvars, cvars, lvars, tvars, fvars, wvars, ovars, nvars, qvars, scvars>>

notFacet == <<rvars, vvars, cvars, lvars, tvars, mvars, wvars, ovars, nvars, qvars, scvars>>

notWildcard == <<rvars, vvars, cvars, lvars, tvars, mvars, fvars, ovars, nvars, qvars, scvars>>

notOccurs == <<rvars, vvars, cvars, lvars, tvars, mvars, fvars, wvars, nvars, qvars, scvars>>

notNormalize == <<rvars, vvars, cvars, lvars, tvars, mvars, fvars, wvars, ovars, qvars, scvars>>

notTerminate == <<rvars, vvars, cvars, lvars, tvars, mvars, fvars, wvars, ovars, nvars, scvars>>

notCache == <<rvars, vvars, cvars, lvars, tvars, mvars, fvars, wvars, ovars, nvars, qvars>>

Range(s) == {s[i] : i \in 1..Len(s)}

(***************************************************************************)
(* Particles.  One record shape for the three kinds the resolver tells     *)
(* apart: *GroupRef, *ModelGroup (by address) and everything else          *)
(* (ElementDecl, ElementRef, AnyElement), which it copies unchanged.       *)
(***************************************************************************)
GroupRef(ref, min, max) == [t |-> "GroupRef", ref |-> ref, id |-> 0, type |-> "", MinOcc |-> min, MaxOcc |-> max]
ModelGroupAt(id) == [t |-> "ModelGroup", ref |-> "", id |-> id, type |-> "", MinOcc |-> 0, MaxOcc |-> 0]
ElementDecl(name, type, min, max) ==
    [t |-> "ElementDecl", ref |-> name, id |-> 0, type |-> type, MinOcc |-> min, MaxOcc |-> max]

ElementRef(ref, min, max) ==
    [t |-> "ElementRef", ref |-> ref, id |-> 0, type |-> "", MinOcc |-> min, MaxOcc |-> max]

ModelGroup(kind, particles, min, max) ==
    [Kind |-> kind, Particles |-> particles, MinOcc |-> min, MaxOcc |-> max]

NoParticle == ElementDecl("", "", 1, 1)

(***************************************************************************)
(* The parsed schema documents the resolver is run on (the state Parse     *)
(* has built when it calls resolveReferences).  G, H are named groups,     *)
(* T, U named complex types; X is a group name no document declares.       *)
(***************************************************************************)
\* G = sequence(a); H = choice(ref G, b); T = <group ref="H" minOccurs="0" maxOccurs="0"/>;
\* U = sequence(ref G, b); a global element has type U
DocPlain ==
    [heap |-> << ModelGroup("sequence", <<ElementDecl("a", "", 1, 1)>>, 1, 1),
                 ModelGroup("choice", <<GroupRef("G", 1, 1), ElementDecl("b", "", 1, 1)>>, 1, 1),
                 ModelGroup("sequence", <<GroupRef("G", 1, 1), ElementDecl("b", "", 1, 1)>>, 1, 1) >>,
     groups |-> ("G" :> 1) @@ ("H" :> 2),
     content |-> ("T" :> GroupRef("H", 0, 0)) @@ ("U" :> ModelGroupAt(3)),
     elemTypes |-> {"U"}]

\* G = sequence(a, ref G); T = sequence(ref G); a global element has type T
DocSelfRef ==
    [heap |-> << ModelGroup("sequence", <<ElementDecl("a", "", 1, 1), GroupRef("G", 1, 1)>>, 1, 1),
                 ModelGroup("sequence", <<GroupRef("G", 1, 1)>>, 1, 1) >>,
     groups |-> ("G" :> 1),
     content |-> ("T" :> ModelGroupAt(2)),
     elemTypes |-> {"T"}]

\* G = sequence(choice(a, ref G)); T = <group ref="G"/>
DocSelfRefNested ==
    [heap |-> << ModelGroup("sequence", <<ModelGroupAt(2)>>, 1, 1),
                 ModelGroup("choice", <<ElementDecl("a", "", 1, 1), GroupRef("G", 0, 1)>>, 1, 1) >>,
     groups |-> ("G" :> 1),
     content |-> ("T" :> GroupRef("G", 1, 1)),
     elemTypes |-> {}]

\* G = sequence(ref H); H = choice(a, ref G); T = sequence(ref G, b)
DocMutual ==
    [heap |-> << ModelGroup("sequence", <<GroupRef("H", 1, 1)>>, 1, 1),
                 ModelGroup("choice", <<ElementDecl("a", "", 1, 1), GroupRef("G", 1, 1)>>, 1, 1),
                 ModelGroup("sequence", <<GroupRef("G", 1, 1), ElementDecl("b", "", 1, 1)>>, 1, 1) >>,
     groups |-> ("G" :> 1) @@ ("H" :> 2),
     content |-> ("T" :> ModelGroupAt(3)),
     elemTypes |-> {}]

\* G = sequence(a); T = sequence(ref X, a); U = <group ref="X"/>  (X undeclared)
DocDangling ==
    [heap |-> << ModelGroup("sequence", <<ElementDecl("a", "", 1, 1)>>, 1, 1),
                 ModelGroup("sequence", <<GroupRef("X", 1, 1), ElementDecl("a", "", 1, 1)>>, 1, 1) >>,
     groups |-> ("G" :> 1),
     content |-> ("T" :> ModelGroupAt(2)) @@ ("U" :> GroupRef("X", 1, 1)),
     elemTypes |-> {"T"}]

\* G = sequence(choice(a, ref G minOccurs=0)); T = sequence(b): the group is
\* referenced by no type.
DocGroupOnly ==
    [heap |-> << ModelGroup("sequence", <<ModelGroupAt(2)>>, 1, 1),
                 ModelGroup("choice", <<ElementDecl("a", "", 1, 1), GroupRef("G", 0, 1)>>, 1, 1),
                 ModelGroup("sequence", <<ElementDecl("b", "", 1, 1)>>, 1, 1) >>,
     groups |-> ("G" :> 1),
     content |-> ("T" :> ModelGroupAt(3)),
     elemTypes |-> {}]

ResolverDocs ==
    {DocPlain, DocSelfRef, DocSelfRefNested, DocMutual, DocDangling, DocGroupOnly}

\* How many times resolveReferences runs over the same components: once in
\* Parse and once more on the loader's combined schema.
MaxRuns == 2

(***************************************************************************)
(* resolveParticlesWithVisited as a step machine.  A frame is one active   *)
(* call: the slice it ranges over, the index of the next particle, the     *)
(* slice built so far, and what its caller does with the result (ret).     *)
(* V and e record the visited map and the heap version at entry.           *)
(***************************************************************************)
Frame(particles, ret, argT, argId, argP, V) ==
    [particles |-> particles, i |-> 1, resolved |-> <<>>,
     ret |-> ret, argT |-> argT, argId |-> argId, argP |-> argP,
     V |-> V, e |-> epoch]

Top == stack[Len(stack)]

\* A call whose arguments, visited map and heap are those of a call that is
\* still active repeats that call's steps, itself included, without end:
\* the Go runtime ends the program with a stack overflow.
Diverges(f) ==
    \E k \in 1..Len(stack) :
        /\ stack[k].particles = f.particles
        /\ stack[k].V = f.V
        /\ stack[k].e = f.e

\* The next position after the call f is entered on top of stack st.
Enter(st, f, pcNow) ==
    /\ stack' = Append(st, f)
    /\ rpc' = IF Diverges(f) THEN "stackOverflow" ELSE pcNow

\* resolvedGroup's occurrence bounds: the reference's, or the group's when
\* the reference has 0/0.
resolvedGroup(group, gr, particles) ==
    IF gr.MinOcc = 0 /\ gr.MaxOcc = 0
    THEN ModelGroup(group.Kind, particles, group.MinOcc, group.MaxOcc)
    ELSE ModelGroup(group.Kind, particles, gr.MinOcc, gr.MaxOcc)

Running == rpc \in {"TypeDefs", "ElementDecls", "Groups"}

\* resolveReferences is entered: by Parse, and again by the loader on the
\* combined schema, whose maps hold the same component objects.
resolveReferences ==
    /\ rpc \in {"parsed", "done"}
    /\ runs < MaxRuns
    /\ runs' = runs + 1
    /\ rpc' = "TypeDefs"
    /\ todo' = DOMAIN content
    /\ UNCHANGED <<heap, groups, content, elemTypes, stack, visited, epoch, notResolve>>

\* One complex type of the loop over TypeDefs (and, for the types of global
\* elements, of resolveTypesInComplexType): a GroupRef content is replaced
\* by the resolved group, a ModelGroup content has its particles resolved.
ResolveComplexType(T) ==
    LET c == content[T] IN
    \/ /\ c.t = "GroupRef"
       /\ c.ref \in DOMAIN groups
       /\ visited' = {}
       /\ Enter(<<>>, Frame(heap[groups[c.ref]].Particles, "typeRef", T, 0, c, {}), rpc)
       /\ UNCHANGED <<heap, groups, content, elemTypes, todo, epoch, runs, notResolve>>
    \/ /\ c.t = "GroupRef"
       /\ c.ref \notin DOMAIN groups
       /\ todo' = todo \ {T}
       /\ UNCHANGED <<heap, groups, content, elemTypes, rpc, stack, visited, epoch, runs, notResolve>>
    \/ /\ c.t = "ModelGroup"
       /\ visited' = {}
       /\ Enter(<<>>, Frame(heap[c.id].Particles, "typeMG", T, c.id, c, {}), rpc)
       /\ UNCHANGED <<heap, groups, content, elemTypes, todo, epoch, runs, notResolve>>

RangeTypeDefs ==
    /\ rpc = "TypeDefs"
    /\ stack = <<>>
    /\ \/ \E T \in todo : ResolveComplexType(T)
       \/ /\ todo = {}
          /\ rpc' = "ElementDecls"
          /\ todo' = elemTypes
          /\ UNCHANGED <<heap, groups, content, elemTypes, stack, visited, epoch, runs, notResolve>>

RangeElementDecls ==
    /\ rpc = "ElementDecls"
    /\ stack = <<>>
    /\ \/ \E T \in todo : ResolveComplexType(T)
       \/ /\ todo = {}
          /\ rpc' = "Groups"
          /\ todo' = DOMAIN groups
          /\ UNCHANGED <<heap, groups, content, elemTypes, stack, visited, epoch, runs, notResolve>>

RangeGroups ==
    /\ rpc = "Groups"
    /\ stack = <<>>
    /\ \/ \E g \in todo :
            /\ visited' = {}
            /\ Enter(<<>>, Frame(heap[groups[g]].Particles, "group", g, groups[g], NoParticle, {}), rpc)
            /\ UNCHANGED <<heap, groups, content, elemTypes, todo, epoch, runs, notResolve>>
       \/ /\ todo = {}
          /\ rpc' = "done"
          /\ UNCHANGED <<heap, groups, content, elemTypes, todo, stack, visited, epoch, runs, notResolve>>

\* The caller's frame, with p appended to its result and its index advanced.
Advance(f, p) == [f EXCEPT !.resolved = Append(@, p), !.i = @ + 1]

\* The loop body of resolveParticlesWithVisited for the next particle.
VisitParticle ==
    /\ Running
    /\ stack # <<>>
    /\ Top.i <= Len(Top.particles)
    /\ LET pt == Top.particles[Top.i]
           n  == Len(stack) IN
       \/ /\ pt.t = "GroupRef"
          /\ pt.ref \in visited
          /\ stack' = [stack EXCEPT ![n] = Advance(@, pt)]
          /\ UNCHANGED <<heap, groups, content, elemTypes, rpc, todo, visited, epoch, runs, notResolve>>
       \/ /\ pt.t = "GroupRef"
          /\ pt.ref \notin visited
          /\ pt.ref \in DOMAIN groups
          /\ visited' = visited \cup {pt.ref}
          /\ Enter(stack, Frame(heap[groups[pt.ref]].Particles, "GroupRef", "", 0, pt,
                                visited \cup {pt.ref}), rpc)
          /\ UNCHANGED <<heap, groups, content, elemTypes, todo, epoch, runs, notResolve>>
       \/ /\ pt.t = "GroupRef"
          /\ pt.ref \notin visited
          /\ pt.ref \notin DOMAIN groups
          /\ stack' = [stack EXCEPT ![n] = Advance(@, pt)]
          /\ visited' = (visited \cup {pt.ref}) \ {pt.ref}
          /\ UNCHANGED <<heap, groups, content, elemTypes, rpc, todo, epoch, runs, notResolve>>
       \/ /\ pt.t = "ModelGroup"
          /\ Enter(stack, Frame(heap[pt.id].Particles, "ModelGroup", "", pt.id, pt, visited), rpc)
          /\ UNCHANGED <<heap, groups, content, elemTypes, todo, visited, epoch, runs, notResolve>>
       \/ /\ pt.t \notin {"GroupRef", "ModelGroup"}
          /\ stack' = [stack EXCEPT ![n] = Advance(@, pt)]
          /\ UNCHANGED <<heap, groups, content, elemTypes, rpc, todo, visited, epoch, runs, notResolve>>

\* resolveParticlesWithVisited returns `resolved`; the caller's statement
\* that holds the call completes.
Return ==
    /\ Running
    /\ stack # <<>>
    /\ Top.i > Len(Top.particles)
    /\ LET f == Top
           n == Len(stack)
           a == Len(heap) + 1 IN
       \/ /\ f.ret = "GroupRef"
          /\ heap' = Append(heap, resolvedGroup(heap[groups[f.argP.ref]], f.argP, f.resolved))
          /\ stack' = [SubSeq(stack, 1, n - 1) EXCEPT ![n - 1] = Advance(@, ModelGroupAt(a))]
          /\ visited' = visited \ {f.argP.ref}
          /\ epoch' = epoch + 1
          /\ UNCHANGED <<groups, content, elemTypes, rpc, todo, runs, notResolve>>
       \/ /\ f.ret = "ModelGroup"
          /\ heap' = [heap EXCEPT ![f.argId].Particles = f.resolved]
          /\ stack' = [SubSeq(stack, 1, n - 1) EXCEPT ![n - 1] = Advance(@, f.argP)]
          /\ epoch' = epoch + 1
          /\ UNCHANGED <<groups, content, elemTypes, rpc, todo, visited, runs, notResolve>>
       \/ /\ f.ret = "typeRef"
          /\ heap' = Append(heap, resolvedGroup(heap[groups[f.argP.ref]], f.argP, f.resolved))
          /\ content' = [content EXCEPT ![f.argT] = ModelGroupAt(a)]
          /\ epoch' = epoch + 1
          /\ visited' = {}
          /\ stack' = << [Frame(f.resolved, "typeMG", f.argT, a, ModelGroupAt(a), {})
                            EXCEPT !.e = epoch + 1] >>
          /\ UNCHANGED <<groups, elemTypes, rpc, todo, runs, notResolve>>
       \/ /\ f.ret \in {"typeMG", "group"}
          /\ heap' = [heap EXCEPT ![f.argId].Particles = f.resolved]
          /\ todo' = todo \ {f.argT}
          /\ stack' = <<>>
          /\ epoch' = epoch + 1
          /\ UNCHANGED <<groups, content, elemTypes, rpc, visited, runs, notResolve>>

\* The compiler before Parse is called.
CompileIdle ==
    /\ cdoc = ""
    /\ TypeDefs = <<>>
    /\ SubstitutionGroups = <<>>
    /\ cpc = "idle"
    /\ ctodo = {}
    /\ compiled = <<>>

\* A Schema with empty maps.
EmptySchema ==
    [TargetNamespace |-> "", ElementDecls |-> <<>>, TypeDefs |-> <<>>,
     SubstitutionGroups |-> <<>>, ImportedSchemas |-> <<>>, Imports |-> <<>>,
     Includes |-> <<>>]

NoReturn == [loc |-> "", err |-> "", inProgress |-> FALSE, cached |-> FALSE]

NoResult == [err |-> "", schema |-> EmptySchema]

\* The loader NewSchemaLoader returns: nothing loaded, no call in progress.
LoaderIdle ==
    /\ loaded = <<>>
    /\ loading = {}
    /\ combined = EmptySchema
    /\ lstack = <<>>
    /\ lpc = "idle"
    /\ ltodo = {}
    /\ lreq = ""
    /\ lret = NoReturn
    /\ logged = {}
    /\ lresult = NoResult
    /\ published = {}
    /\ dirty = {}
    /\ lcalls = 0

\* No type-compatibility walk has been asked for.
CompatIdle ==
    /\ tTypeDefs = <<>>
    /\ tStart = ""
    /\ tActual = ""
    /\ tExpected = ""
    /\ tVisited = {}
    /\ tpc = "idle"
    /\ tResult = FALSE

\* No value has been handed to the facet check.
FacetIdle ==
    /\ fValue = <<>>
    /\ fType = ""
    /\ fErr = ""
    /\ fpc = "idle"

\* No document has been handed to the content-model matcher.
MatchIdle ==
    /\ mGroup = ""
    /\ mChildren = <<>>
    /\ mViolations = <<>>
    /\ mpc = "idle"

\* The validator before any Validator exists.
ValidateIdle ==
    /\ vschema = ""
    /\ vdoc = ""
    /\ violations = <<>>
    /\ ids = {}
    /\ idRefs = {}
    /\ keyValues = <<>>
    /\ calls = 0

\* No wildcard has been matched.
WildcardIdle ==
    /\ wValue = <<>>
    /\ wNamespace = ""
    /\ wTarget = ""
    /\ wResult = FALSE
    /\ wpc = "idle"

\* No schema document has been handed to an entry point.
OccursIdle ==
    /\ oDoc = ""
    /\ oResult = ""
    /\ opc = "idle"

\* No value has been handed to NormalizeWhiteSpace.
NormalizeIdle ==
    /\ nValue = <<>>
    /\ nMode = ""
    /\ nOnce = <<>>
    /\ nTwice = <<>>
    /\ npc = "idle"

\* No sequence matcher has been started.
TerminateIdle ==
    /\ qSchema = ""
    /\ qChildren = <<>>
    /\ qStack = <<>>
    /\ qpc = "idle"

\* No cache exists.
CacheIdle ==
    /\ scSchemas = <<>>
    /\ scEntries = <<>>
    /\ scParsed = <<>>
    /\ scStacks = <<>>
    /\ scReq = <<>>
    /\ scResult = <<>>

InitResolve ==
    /\ ValidateIdle
    /\ CompileIdle
    /\ LoaderIdle
    /\ CompatIdle
    /\ MatchIdle
    /\ FacetIdle
    /\ WildcardIdle
    /\ OccursIdle
    /\ NormalizeIdle
    /\ TerminateIdle
    /\ CacheIdle
    /\ \E d \in ResolverDocs :
          /\ heap = d.heap
          /\ groups = d.groups
          /\ content = d.content
          /\ elemTypes = d.elemTypes
    /\ rpc = "parsed"
    /\ todo = {}
    /\ stack = <<>>
    /\ visited = {}
    /\ epoch = 0
    /\ runs = 0

NextResolve ==
    \/ resolveReferences
    \/ RangeTypeDefs
    \/ RangeElementDecls
    \/ RangeGroups
    \/ VisitParticle
    \/ Return

SpecResolve == InitResolve /\ [][NextResolve]_vars

(***************************************************************************)
(* Reachability over the particle links of the ModelGroup objects.         *)
(***************************************************************************)
Children(id) ==
    {heap[id].Particles[k].id :
        k \in {j \in 1..Len(heap[id].Particles) : heap[id].Particles[j].t = "ModelGroup"}}

RECURSIVE ReachFrom(_, _)
ReachFrom(S, n) ==
    IF n = 0 THEN S ELSE ReachFrom(S \cup UNION {Children(x) : x \in S}, n - 1)

Reachable(id) == ReachFrom(Children(id), Len(heap))

\* C1: resolveParticles terminates on every schema, the second run on the
\* loader's combined schema included: no call of the resolver ever repeats
\* a call that is still active.
C1_ResolverTerminates == rpc # "stackOverflow"

\* C2: once resolveReferences has run, no ModelGroup is reachable from
\* itself through particle links.
C2_NoModelGroupCycle ==
    rpc = "done" => \A id \in 1..Len(heap) : id \notin Reachable(id)

(***************************************************************************)
(* Compiled schema components, as the validator reads them.                *)
(***************************************************************************)
\* ct.Content == nil
NoContent == [Kind |-> "nil", Particles |-> <<>>, MinOcc |-> 0, MaxOcc |-> 0]

AttributeDecl(name, use) == [Name |-> name, Use |-> use]

ComplexType(name, attributes, cont) ==
    [t |-> "ComplexType", QName |-> name, Attributes |-> attributes, Content |-> cont,
     Abstract |-> FALSE]

\* A built-in simple type as Parse leaves it: a SimpleType with no
\* Restriction, List or Union.
SimpleType(name) ==
    [t |-> "SimpleType", QName |-> name, Attributes |-> <<>>, Content |-> NoContent,
     Abstract |-> FALSE]

Selector(descendants, steps) == [descendants |-> descendants, steps |-> steps]

\* Fields holds the attribute names of field paths of the form "@name".
IdentityConstraint(name, kind, selector, fields, refer) ==
    [Name |-> name, Kind |-> kind, Selector |-> selector, Fields |-> fields, Refer |-> refer]

GlobalElement(name, type, head, abstract, constraints) ==
    [Name |-> name, Type |-> type, SubstitutionGroup |-> head, Abstract |-> abstract,
     Constraints |-> constraints]

\* An element of an instance document.
Element(name, attrs, children) == [name |-> name, attrs |-> attrs, children |-> children]

Attr(name, value) == [name |-> name, value |-> value]

\* <complexContent><extension base=...> with the extension's attributes and
\* its content (NoContent or a ModelGroup).
ComplexContent(base, attributes, cont) ==
    [Kind |-> "complexContent", Base |-> base, Attributes |-> attributes, Content |-> cont]

IsModelGroup(c) == c.Kind \in {"sequence", "choice", "all"}

\* A Content value used as a Particle (baseCT.Content.(Particle)).
ContentParticle(c) ==
    [t |-> "ComplexContent", ref |-> c.Base, id |-> 0, type |-> "", MinOcc |-> 1, MaxOcc |-> 1]

\* resolveExtension(ct, ext) for ct.Content = ComplexContent{Extension: ext}:
\* the complex type ct is left as, given the type map it reads the base from.
resolveExtension(ct, typeDefs) ==
    LET ext == ct.Content IN
    IF ext.Base \notin DOMAIN typeDefs \/ typeDefs[ext.Base].t # "ComplexType" THEN ct
    ELSE
      LET baseCT == typeDefs[ext.Base]
          particles ==
              (IF IsModelGroup(baseCT.Content) THEN baseCT.Content.Particles
               ELSE <<ContentParticle(baseCT.Content)>>)
              \o ext.Content.Particles
          cont ==
              IF ext.Content.Kind # "nil"
              THEN IF baseCT.Content.Kind # "nil"
                   THEN IF Len(particles) > 0
                        THEN ModelGroup("sequence", particles, 1, 1)
                        ELSE ext.Content
                   ELSE ext.Content
              ELSE IF baseCT.Content.Kind # "nil" THEN baseCT.Content ELSE ct.Content
      IN [ct EXCEPT !.Attributes = baseCT.Attributes \o ext.Attributes,
                    !.Content = cont]

(***************************************************************************)
(* The compiled schemas the validator is run on.                           *)
(***************************************************************************)
\* catalog : CatalogT = sequence(item*, note?) with required attribute
\* "version", optional attribute "id" and <key name="itemKey"><selector xpath=".//item"/><field
\* xpath="@code"/></key>; ItemT and NoteT are empty complex types with a
\* required attribute each.
CatalogTypeDefs ==
    ("CatalogT" :> ComplexType("CatalogT", <<AttributeDecl("version", "required"),
                                                 AttributeDecl("id", "optional")>>,
                      ModelGroup("sequence", <<ElementDecl("item", "ItemT", 0, -1),
                                               ElementDecl("note", "NoteT", 0, 1)>>, 1, 1)))
    @@ ("ItemT" :> ComplexType("ItemT", <<AttributeDecl("code", "required")>>, NoContent))
    @@ ("NoteT" :> ComplexType("NoteT", <<AttributeDecl("lang", "required")>>, NoContent))

CatalogElementDecls ==
    ("catalog" :> GlobalElement("catalog", "CatalogT", "", FALSE,
        {IdentityConstraint("itemKey", "key", Selector(TRUE, <<"item">>), <<"code">>, "")}))

CatalogSchema ==
    [ElementDecls |-> CatalogElementDecls,
     TypeDefs |-> CatalogTypeDefs,
     SubstitutionGroups |-> <<>>]

\* fleet = sequence(ref vehicle+); vehicle : VehicleType = sequence(brand);
\* car : CarType (extends VehicleType by doors) and motorcycle :
\* MotorcycleType = sequence(engine), not derived, both with
\* substitutionGroup="vehicle"; sportscar : CarType with
\* substitutionGroup="car"; bike : VehicleType is in no group.
FleetParsedTypeDefs ==
    ("FleetT" :> ComplexType("FleetT", <<>>,
                    ModelGroup("sequence", <<ElementRef("vehicle", 1, -1)>>, 1, 1)))
    @@ ("VehicleType" :> ComplexType("VehicleType", <<>>,
                    ModelGroup("sequence", <<ElementDecl("brand", "string", 1, 1)>>, 1, 1)))
    @@ ("CarType" :> ComplexType("CarType", <<>>,
                    ComplexContent("VehicleType", <<>>,
                        ModelGroup("sequence", <<ElementDecl("doors", "string", 1, 1)>>, 1, 1))))
    @@ ("MotorcycleType" :> ComplexType("MotorcycleType", <<>>,
                    ModelGroup("sequence", <<ElementDecl("engine", "string", 1, 1)>>, 1, 1)))
    @@ ("string" :> SimpleType("string"))

FleetElementDecls ==
    ("fleet" :> GlobalElement("fleet", "FleetT", "", FALSE, {}))
    @@ ("vehicle" :> GlobalElement("vehicle", "VehicleType", "", FALSE, {}))
    @@ ("car" :> GlobalElement("car", "CarType", "vehicle", FALSE, {}))
    @@ ("motorcycle" :> GlobalElement("motorcycle", "MotorcycleType", "vehicle", FALSE, {}))
    @@ ("bike" :> GlobalElement("bike", "VehicleType", "", FALSE, {}))
    @@ ("sportscar" :> GlobalElement("sportscar", "CarType", "car", FALSE, {}))

FleetSchema ==
    [ElementDecls |-> FleetElementDecls,
     TypeDefs |-> [FleetParsedTypeDefs EXCEPT
                      !["CarType"] = resolveExtension(@, FleetParsedTypeDefs)],
     SubstitutionGroups |-> ("vehicle" :> <<"car", "motorcycle">>)
                            @@ ("car" :> <<"sportscar">>)]

\* library : LibraryT = sequence(book*, loan*), with <key name="bookKey">
\* (.//book, @isbn), <keyref name="bookRef" refer="bookKey"> (.//loan, @book)
\* and <unique name="loanUnique"> (.//loan, @book); BookT has the required
\* attribute "isbn", LoanT the required attribute "book" and the optional
\* attribute "ref".
LibraryTypeDefs ==
    ("LibraryT" :> ComplexType("LibraryT", <<>>,
                      ModelGroup("sequence", <<ElementDecl("book", "BookT", 0, -1),
                                               ElementDecl("loan", "LoanT", 0, -1)>>, 1, 1)))
    @@ ("BookT" :> ComplexType("BookT", <<AttributeDecl("isbn", "required")>>, NoContent))
    @@ ("LoanT" :> ComplexType("LoanT", <<AttributeDecl("book", "required"),
                                           AttributeDecl("ref", "optional")>>, NoContent))

LibraryElementDecls ==
    ("library" :> GlobalElement("library", "LibraryT", "", FALSE,
        {IdentityConstraint("bookKey", "key", Selector(TRUE, <<"book">>), <<"isbn">>, ""),
         IdentityConstraint("bookRef", "keyref", Selector(TRUE, <<"loan">>), <<"book">>,
                            "bookKey"),
         IdentityConstraint("loanUnique", "unique", Selector(TRUE, <<"loan">>), <<"book">>,
                            "")}))

LibrarySchema ==
    [ElementDecls |-> LibraryElementDecls,
     TypeDefs |-> LibraryTypeDefs,
     SubstitutionGroups |-> <<>>]

VSchemas == {CatalogSchema, FleetSchema, LibrarySchema}

(***************************************************************************)
(* Substitution groups.                                                    *)
(***************************************************************************)
\* isTypeCompatibleWithCycleDetection; a type is a name of S.TypeDefs, ""
\* is nil.
RECURSIVE isTypeCompatibleWithCycleDetection(_, _, _, _)
isTypeCompatibleWithCycleDetection(actualType, expectedType, S, seen) ==
    IF actualType = "" \/ expectedType = "" THEN FALSE
    ELSE IF actualType = expectedType THEN TRUE
    ELSE IF actualType \in seen THEN FALSE
    ELSE LET actual == S.TypeDefs[actualType] IN
         IF /\ actual.t = "ComplexType"
            /\ actual.Content.Kind = "complexContent"
            /\ actual.Content.Base # ""
            /\ actual.Content.Base \in DOMAIN S.TypeDefs
         THEN isTypeCompatibleWithCycleDetection(actual.Content.Base, expectedType, S,
                                                 seen \cup {actualType})
         ELSE FALSE

isTypeCompatible(actualType, expectedType, S) ==
    isTypeCompatibleWithCycleDetection(actualType, expectedType, S, {})

\* isSubstitutableFor on a schema compiled by Parse (no ImportedSchemas).
isSubstitutableFor(actualElement, expectedElement, S) ==
    /\ expectedElement \in DOMAIN S.SubstitutionGroups
    /\ actualElement \in Range(S.SubstitutionGroups[expectedElement])
    /\ \/ actualElement \notin DOMAIN S.ElementDecls
       \/ expectedElement \notin DOMAIN S.ElementDecls
       \/ isTypeCompatible(S.ElementDecls[actualElement].Type,
                           S.ElementDecls[expectedElement].Type, S)
       \/ /\ S.ElementDecls[actualElement].Type # ""
          /\ S.ElementDecls[expectedElement].Type # ""

\* The namespace of an element of an instance document.  Every schema of
\* this module has the target namespace TargetNamespace; the elements named
\* in ForeignNames are in another namespace, every other element is in the
\* target namespace.
TargetNamespace == "urn:t"

ForeignNames == {"X"}

NamespaceURI(elem) == IF elem.name \in ForeignNames THEN "urn:other" ELSE TargetNamespace

\* <xs:any namespace=... processContents=...> as a particle.
AnyElement(namespace, processContents, min, max) ==
    [t |-> "AnyElement", Namespace |-> namespace, ProcessContents |-> processContents,
     MinOcc |-> min, MaxOcc |-> max]

\* A *ModelGroup that is a particle of another model group.
NestedGroup(kind, particles, min, max) ==
    [t |-> "ModelGroup", Kind |-> kind, Particles |-> particles, MinOcc |-> min,
     MaxOcc |-> max]

\* A namespace attribute value is the sequence of its whitespace-separated
\* tokens, without leading whitespace: strings.HasPrefix(value, "##") is
\* then a test on its first token.
HashTokens == {"##any", "##other", "##targetNamespace", "##local"}

HasHashPrefix(value) == value # <<>> /\ value[1] \in HashTokens

\* ParseNamespaceConstraint: Mode is the whole value, and only a value that
\* does not start with "##" is split into Namespaces, with Mode "list" (kept
\* here as the one-token value <<"list">>, so that every Mode is a value).
ParseNamespaceConstraint(value) ==
    LET v == IF value = <<>> THEN <<"##any">> ELSE value
    IN IF ~HasHashPrefix(v)
       THEN [Mode |-> <<"list">>, Namespaces |-> v]
       ELSE [Mode |-> v, Namespaces |-> <<>>]

\* WildcardNamespaceConstraint.Matches.
Matches(c, namespace, targetNamespace) ==
    CASE c.Mode = <<"##any">> -> TRUE
      [] c.Mode = <<"##other">> -> namespace # targetNamespace
      [] c.Mode = <<"##targetNamespace">> -> namespace = targetNamespace
      [] c.Mode = <<"##local">> -> namespace = ""
      [] c.Mode = <<"list">> ->
            \/ \E i \in 1..Len(c.Namespaces) : c.Namespaces[i] = namespace
            \/ \E i \in 1..Len(c.Namespaces) :
                  \/ c.Namespaces[i] = "##targetNamespace" /\ namespace = targetNamespace
                  \/ c.Namespaces[i] = "##local" /\ namespace = ""
      [] OTHER -> FALSE

MatchesWildcard(elem, namespace) ==
    Matches(ParseNamespaceConstraint(namespace), NamespaceURI(elem), TargetNamespace)

\* A particle that no element matches.
matchesNothing(elem, p, S) == FALSE

\* schema.Groups; the schemas without named groups have no such field.
GroupsOf(S) == IF "Groups" \in DOMAIN S THEN S.Groups ELSE <<>>

RECURSIVE GroupValidate(_, _, _)

\* elementMatchesParticle for *ElementDecl, *ElementRef, *GroupRef,
\* *AnyElement and nested *ModelGroup particles.
RECURSIVE elementMatchesParticle(_, _, _)
elementMatchesParticle(elem, p, S) ==
    IF p.t \in {"ElementDecl", "ElementRef"}
    THEN \/ elem.name = p.ref
         \/ isSubstitutableFor(elem.name, p.ref, S)
    ELSE IF p.t = "GroupRef"
    THEN /\ p.ref \in DOMAIN GroupsOf(S)
         /\ Len(GroupValidate(GroupsOf(S)[p.ref], elem, S)) = 0
    ELSE IF p.t = "AnyElement" THEN MatchesWildcard(elem, p.Namespace)
    ELSE IF p.t = "ModelGroup"
         THEN \E i \in 1..Len(p.Particles) : elementMatchesParticle(elem, p.Particles[i], S)
         ELSE FALSE

(***************************************************************************)
(* The content-model matcher: sequences and choices of element particles,  *)
(* wildcards, nested sequence and choice groups and group references the   *)
(* resolver has left in place.  No schema here has an "all" group.         *)
(***************************************************************************)
Violation(code, element) == [Code |-> code, Element |-> element]

Tail0(sq, n) == SubSeq(sq, n + 1, Len(sq))

RECURSIVE Concat(_)
Concat(ss) == IF ss = <<>> THEN <<>> ELSE Head(ss) \o Concat(Tail(ss))

RECURSIVE TypeValidate(_, _, _)
RECURSIVE validateSequenceFrom(_, _, _, _, _, _)
RECURSIVE matchElementDecl(_, _, _, _, _)
RECURSIVE validateMatched(_, _, _, _)
RECURSIVE matchParticle(_, _, _)

\* A value that is computed once and then read more than once (the result
\* of matchParticle, say) is handed to an operator as an argument, as the
\* code holds it in a local variable.

\* ValidateAnyElement: the namespace constraint, then processContents.
ValidateAnyElement(elem, wildcard, S) ==
    LET mode == IF wildcard.ProcessContents = "" THEN "strict" ELSE wildcard.ProcessContents
    IN IF ~MatchesWildcard(elem, wildcard.Namespace)
       THEN <<Violation("cvc-wildcard.2", elem.name)>>
       ELSE IF mode = "skip" THEN <<>>
       ELSE IF mode \notin {"strict", "lax"} THEN <<Violation("cvc-wildcard.3", elem.name)>>
       ELSE IF elem.name \in DOMAIN S.ElementDecls
            THEN IF S.ElementDecls[elem.name].Type # ""
                 THEN TypeValidate(S.ElementDecls[elem.name].Type, elem, S) ELSE <<>>
            ELSE IF mode = "strict"
                 THEN <<Violation("cvc-assess-elt.1.1.1", elem.name)>> ELSE <<>>

\* matchWildcard: the leading children the namespace constraint admits, up
\* to MaxOcc once one has matched, each validated by ValidateAnyElement.
RECURSIVE matchWildcard(_, _, _, _, _)
matchWildcard(wildcard, children, S, matched, viol) ==
    IF \/ matched >= Len(children)
       \/ matched > 0 /\ wildcard.MaxOcc # -1 /\ matched >= wildcard.MaxOcc
       \/ ~MatchesWildcard(children[matched + 1], wildcard.Namespace)
    THEN [matched |-> matched, consumed |-> matched, violations |-> viol]
    ELSE matchWildcard(wildcard, children, S, matched + 1,
                       viol \o ValidateAnyElement(children[matched + 1], wildcard, S))

\* matchParticle, inline *ElementDecl: the leading children with the
\* declaration's name, up to MaxOcc once one has matched, each validated
\* against the declaration's type.
matchElementDecl(elemDecl, children, S, matched, viol) ==
    IF \/ matched >= Len(children)
       \/ matched > 0 /\ elemDecl.MaxOcc # -1 /\ matched >= elemDecl.MaxOcc
       \/ children[matched + 1].name # elemDecl.ref
    THEN [matched |-> matched, consumed |-> matched, violations |-> viol]
    ELSE matchElementDecl(elemDecl, children, S, matched + 1,
             viol \o (IF elemDecl.type # ""
                      THEN TypeValidate(elemDecl.type, children[matched + 1], S)
                      ELSE <<>>))

\* matchParticle, any other particle: the count of leading children that
\* elementMatchesParticle accepts, up to MaxOccurs once one has matched.
RECURSIVE countMatching(_, _, _, _)
countMatching(particle, children, S, matched) ==
    IF \/ matched >= Len(children)
       \/ matched > 0 /\ particle.MaxOcc # -1 /\ matched >= particle.MaxOcc
       \/ ~elementMatchesParticle(children[matched + 1], particle, S)
    THEN matched
    ELSE countMatching(particle, children, S, matched + 1)

\* validateSequence, *ElementRef: each matched child is validated against
\* the type of its own declaration, else of the referenced declaration.
validateMatched(elemRef, children, S, consumed) ==
    IF consumed = 0 THEN <<>>
    ELSE LET childElem == children[1]
             exists == childElem.name \in DOMAIN S.ElementDecls
             typeToValidate ==
                 IF exists /\ S.ElementDecls[childElem.name].Type # ""
                 THEN S.ElementDecls[childElem.name].Type
                 ELSE IF elemRef.ref \in DOMAIN S.ElementDecls
                      THEN S.ElementDecls[elemRef.ref].Type
                      ELSE ""
         IN (IF typeToValidate # "" THEN TypeValidate(typeToValidate, childElem, S) ELSE <<>>)
            \o validateMatched(elemRef, Tail(children), S, consumed - 1)

\* findWildcard(particles) # nil
RECURSIVE findWildcard(_)
findWildcard(particles) ==
    \E i \in 1..Len(particles) :
        \/ particles[i].t = "AnyElement"
        \/ particles[i].t = "ModelGroup" /\ findWildcard(particles[i].Particles)

\* The first particle of the choice that the child matches, 0 when none
\* does.
firstMatching(child, particles, S) ==
    LET matching == {i \in 1..Len(particles) : elementMatchesParticle(child, particles[i], S)}
    IN IF matching = {} THEN 0 ELSE CHOOSE i \in matching : \A j \in matching : i <= j

\* matchChoiceGroup: a choice group that is a particle of a sequence
\* consumes the leading children that match any of its particles.
RECURSIVE matchChoiceGroupFrom(_, _, _, _, _)

\* ... the child at consumed, given the particle k it matches first
matchChoiceChild(choiceGroup, children, S, consumed, viol, k) ==
    LET child == children[consumed + 1]
        particle == choiceGroup.Particles[k]
    IN IF k # 0
       THEN matchChoiceGroupFrom(choiceGroup, children, S, consumed + 1,
                viol \o (IF particle.t = "ElementDecl"
                         THEN IF particle.type # ""
                              THEN TypeValidate(particle.type, child, S) ELSE <<>>
                         ELSE IF particle.t = "ElementRef"
                         THEN validateMatched(particle, <<child>>, S, 1)
                         ELSE IF particle.t = "AnyElement"
                         THEN ValidateAnyElement(child, particle, S)
                         ELSE <<>>))
       ELSE IF findWildcard(choiceGroup.Particles)
            THEN matchChoiceGroupFrom(choiceGroup, children, S, consumed + 1,
                     Append(viol, Violation("cvc-wildcard.2", child.name)))
            ELSE [consumed |-> consumed, violations |-> viol]

matchChoiceGroupFrom(choiceGroup, children, S, consumed, viol) ==
    IF consumed >= Len(children) THEN [consumed |-> consumed, violations |-> viol]
    ELSE matchChoiceChild(choiceGroup, children, S, consumed, viol,
                          firstMatching(children[consumed + 1], choiceGroup.Particles, S))

matchChoiceGroup(choiceGroup, children, S) ==
    matchChoiceGroupFrom(choiceGroup, children, S, 0, <<>>)

\* countConsumedByGroup, SequenceGroup: the children the particles of the
\* group consume one after the other.
RECURSIVE countConsumedBySequence(_, _, _, _, _)
countConsumedBySequence(group, children, S, k, childIndex) ==
    IF k > Len(group.Particles) \/ childIndex >= Len(children) THEN childIndex
    ELSE countConsumedBySequence(group, children, S, k + 1,
             childIndex + matchParticle(group.Particles[k], Tail0(children, childIndex),
                                        S).consumed)

\* countConsumedByGroup, ChoiceGroup: the leading children that match any
\* particle of the group.
RECURSIVE countConsumedByChoice(_, _, _, _)
countConsumedByChoice(group, children, S, consumed) ==
    IF \/ consumed >= Len(children)
       \/ \A i \in 1..Len(group.Particles) :
             ~elementMatchesParticle(children[consumed + 1], group.Particles[i], S)
    THEN consumed
    ELSE countConsumedByChoice(group, children, S, consumed + 1)

countConsumedByGroup(group, children, S) ==
    IF group.Kind = "sequence" THEN countConsumedBySequence(group, children, S, 1, 0)
    ELSE IF group.Kind = "choice" THEN countConsumedByChoice(group, children, S, 0)
    ELSE 0

\* What matchParticle returns for a group that consumed so many children.
groupMatched(consumed, viol) ==
    [matched |-> IF consumed > 0 THEN 1 ELSE 0, consumed |-> consumed, violations |-> viol]

\* What matchParticle returns when every consumed child is a match.
eachMatched(consumed, viol) ==
    [matched |-> consumed, consumed |-> consumed, violations |-> viol]

choiceMatched(r) == eachMatched(r.consumed, r.violations)

matchParticle(particle, children, S) ==
    IF particle.t = "AnyElement" THEN matchWildcard(particle, children, S, 0, <<>>)
    ELSE IF particle.t = "ModelGroup" /\ particle.Kind = "choice"
    THEN choiceMatched(matchChoiceGroup(particle, children, S))
    ELSE IF particle.t = "ModelGroup" /\ particle.Kind = "sequence"
    THEN groupMatched(countConsumedByGroup(particle, children, S),
                      validateSequenceFrom(particle, children, S, 0, 0, <<>>))
    ELSE IF particle.t = "ElementDecl"
    THEN matchElementDecl(particle, children, S, 0, <<>>)
    ELSE eachMatched(countMatching(particle, children, S, 0), <<>>)

\* The violation for a child no particle takes: cvc-wildcard.2 when one of
\* the given particles is a wildcard whose namespace constraint the child
\* does not meet, cvc-complex-type.2.4.d otherwise.
unexpectedChild(child, particles) ==
    IF \E i \in 1..Len(particles) :
          particles[i].t = "AnyElement" /\ ~MatchesWildcard(child, particles[i].Namespace)
    THEN Violation("cvc-wildcard.2", child.name)
    ELSE Violation("cvc-complex-type.2.4.d", child.name)

\* validateSequence, the switch on the Kind of a nested or referenced
\* group: what it consumed and the violations it reported.
nestedRun(group, rest, S) ==
    IF group.Kind = "choice" THEN matchChoiceGroup(group, rest, S)
    ELSE [consumed |-> countConsumedByGroup(group, rest, S),
          violations |-> validateSequenceFrom(group, rest, S, 0, 0, <<>>)]

\* The violations of a nested group that validateSequence keeps.
keptOfNested(nestedGroup, consumed, nestedViolations) ==
    IF nestedGroup.MinOcc > 0 \/ consumed > 0 THEN nestedViolations
    ELSE SelectSeq(nestedViolations, LAMBDA v : v.Code = "cvc-wildcard.2")

\* validateSequence, nested *ModelGroup, once the group has been run on the
\* children from childIndex on.
afterNestedGroup(mg, children, S, childIndex, particleIndex, viol, nested) ==
    validateSequenceFrom(mg, children, S, childIndex + nested.consumed, particleIndex + 1,
        viol \o keptOfNested(mg.Particles[particleIndex + 1], nested.consumed,
                             nested.violations))

\* validateSequence, *AnyElement that the child matches, once matchWildcard
\* has returned.
afterWildcard(mg, children, S, childIndex, particleIndex, viol, w) ==
    validateSequenceFrom(mg, children, S, childIndex + w.consumed, particleIndex + 1,
        viol \o w.violations
             \o (IF w.matched < mg.Particles[particleIndex + 1].MinOcc
                 THEN <<Violation("cvc-complex-type.2.4.b", "")>> ELSE <<>>))

\* validateSequence, regular particle, once matchParticle has returned.
afterParticle(mg, children, S, childIndex, particleIndex, viol, m) ==
    LET child == children[childIndex + 1]
        particle == mg.Particles[particleIndex + 1]
        v1 == viol \o m.violations
    IN IF m.consumed > 0
       THEN validateSequenceFrom(mg, children, S, childIndex + m.consumed, particleIndex + 1,
                v1 \o (IF particle.t = "ElementRef"
                       THEN validateMatched(particle, Tail0(children, childIndex), S,
                                            m.consumed)
                       ELSE <<>>)
                   \o (IF m.matched < particle.MinOcc
                       THEN <<Violation("cvc-complex-type.2.4.b", "")>> ELSE <<>>)
                   \o (IF particle.MaxOcc # -1 /\ m.matched > particle.MaxOcc
                       THEN <<Violation("cvc-complex-type.2.4.d", "")>> ELSE <<>>))
       ELSE IF particle.MinOcc = 0
            THEN validateSequenceFrom(mg, children, S, childIndex, particleIndex + 1, v1)
            ELSE validateSequenceFrom(mg, children, S, childIndex + 1, particleIndex,
                     Append(v1, unexpectedChild(child,
                                                SubSeq(mg.Particles, 1, particleIndex))))

\* The three loops of validateSequence from (childIndex, particleIndex) on.
validateSequenceFrom(mg, children, S, childIndex, particleIndex, viol) ==
    IF childIndex < Len(children) /\ particleIndex < Len(mg.Particles)
    THEN LET child == children[childIndex + 1]
             particle == mg.Particles[particleIndex + 1]
             rest == Tail0(children, childIndex)
         IN IF particle.t = "GroupRef"
            THEN IF particle.ref \in DOMAIN GroupsOf(S)
                 THEN afterNestedGroup(mg, children, S, childIndex, particleIndex, viol,
                          nestedRun(GroupsOf(S)[particle.ref], rest, S))
                 ELSE validateSequenceFrom(mg, children, S, childIndex, particleIndex + 1,
                                           viol)
            ELSE IF particle.t = "ModelGroup"
            THEN afterNestedGroup(mg, children, S, childIndex, particleIndex, viol,
                                  nestedRun(particle, rest, S))
            ELSE IF particle.t = "AnyElement"
            THEN IF MatchesWildcard(child, particle.Namespace)
                 THEN afterWildcard(mg, children, S, childIndex, particleIndex, viol,
                                    matchWildcard(particle, rest, S, 0, <<>>))
                 ELSE IF particle.MinOcc = 0
                      THEN validateSequenceFrom(mg, children, S, childIndex,
                                                particleIndex + 1, viol)
                      ELSE validateSequenceFrom(mg, children, S, childIndex + 1,
                               particleIndex,
                               Append(viol, Violation("cvc-wildcard.2", child.name)))
            ELSE afterParticle(mg, children, S, childIndex, particleIndex, viol,
                               matchParticle(particle, rest, S))
    ELSE IF particleIndex < Len(mg.Particles)
    THEN validateSequenceFrom(mg, children, S, childIndex, particleIndex + 1,
             IF mg.Particles[particleIndex + 1].MinOcc > 0
             THEN Append(viol, Violation("cvc-complex-type.2.4.b", "")) ELSE viol)
    ELSE IF childIndex < Len(children)
    THEN validateSequenceFrom(mg, children, S, childIndex + 1, particleIndex,
             Append(viol, unexpectedChild(children[childIndex + 1], mg.Particles)))
    ELSE viol

validateSequence(mg, children, S) == validateSequenceFrom(mg, children, S, 0, 0, <<>>)

\* validateChoice from the k-th particle on: the particles are tried in
\* order until one has matched and consumed every child.
RECURSIVE validateChoiceFrom(_, _, _, _, _, _)

\* ... once matchParticle has returned for the k-th particle
afterChoiceParticle(mg, children, S, k, viol, m) ==
    LET particle == mg.Particles[k]
        refType == IF particle.ref \in DOMAIN S.ElementDecls
                   THEN S.ElementDecls[particle.ref].Type ELSE ""
    IN IF m.matched = 0 THEN validateChoiceFrom(mg, children, S, k + 1, viol, FALSE)
       ELSE validateChoiceFrom(mg, children, S, k + 1,
                viol \o m.violations
                     \o (IF particle.t = "ElementRef" /\ refType # ""
                         THEN Concat([i \in 1..m.consumed |->
                                         TypeValidate(refType, children[i], S)])
                         ELSE <<>>),
                m.consumed = Len(children))

validateChoiceFrom(mg, children, S, k, viol, done) ==
    IF done THEN viol
    ELSE IF k > Len(mg.Particles)
    THEN Append(viol, Violation("cvc-complex-type.2.4.a", ""))
    ELSE afterChoiceParticle(mg, children, S, k, viol,
                             matchParticle(mg.Particles[k], children, S))

validateChoice(mg, children, S) == validateChoiceFrom(mg, children, S, 1, <<>>, FALSE)

\* ModelGroup.Validate
GroupValidate(group, element, S) ==
    IF group.Kind = "sequence" THEN validateSequence(group, element.children, S)
    ELSE IF group.Kind = "choice" THEN validateChoice(group, element.children, S)
    ELSE <<>>

\* Content.Validate: nil content, ModelGroup.Validate and
\* ComplexContent.Validate.
ContentValidate(c, element, S) ==
    IF c.Kind = "sequence" THEN validateSequence(c, element.children, S)
    ELSE IF c.Kind = "choice" THEN validateChoice(c, element.children, S)
    ELSE IF c.Kind = "complexContent" /\ c.Content.Kind = "sequence"
         THEN validateSequence(c.Content, element.children, S)
         ELSE <<>>

\* Type.Validate: SimpleType.Validate of a type with no Restriction, List
\* or Union reports nothing; ComplexType.Validate validates the content.
TypeValidate(type, element, S) ==
    IF S.TypeDefs[type].t = "ComplexType"
    THEN ContentValidate(S.TypeDefs[type].Content, element, S)
    ELSE <<>>

(***************************************************************************)
(* Validator.  The documents carry no text, no xsi:nil and no namespace    *)
(* declarations, and the schemas no fixed or default values, no attribute  *)
(* groups, no attribute wildcard and no typed attributes: those branches   *)
(* of validateElement and validateAttributes add nothing here.             *)
(***************************************************************************)

AttrNames(elem) == {a.name : a \in elem.attrs}

GetAttribute(elem, name) ==
    IF name \in AttrNames(elem)
    THEN (CHOOSE a \in elem.attrs : a.name = name).value
    ELSE ""

\* One violation per attribute name of the set.  The order among several is
\* the order of a Go map range; no element of the documents below has more
\* than one such attribute.
RECURSIVE AttrViolations(_, _, _)
AttrViolations(names, code, elem) ==
    IF names = {} THEN <<>>
    ELSE LET n == CHOOSE x \in names : TRUE
         IN <<Violation(code, elem.name)>> \o AttrViolations(names \ {n}, code, elem)

\* validateAttributes: an attribute the type does not declare is
\* cvc-complex-type.3.2.2, a required attribute that is absent is
\* cvc-complex-type.4.
validateAttributes(elem, elemType, S) ==
    LET expectedAttrs ==
            IF elemType # "" /\ S.TypeDefs[elemType].t = "ComplexType"
            THEN S.TypeDefs[elemType].Attributes ELSE <<>>
        expected == {expectedAttrs[i].Name : i \in 1..Len(expectedAttrs)}
        required == {expectedAttrs[i].Name :
                        i \in {j \in 1..Len(expectedAttrs) : expectedAttrs[j].Use = "required"}}
    IN AttrViolations(AttrNames(elem) \ expected, "cvc-complex-type.3.2.2", elem)
       \o AttrViolations(required \ AttrNames(elem), "cvc-complex-type.4", elem)

\* violation.Element = elem where the content model left it unset
SetElement(viol, elem) ==
    [i \in 1..Len(viol) |->
        IF viol[i].Element = "" THEN [viol[i] EXCEPT !.Element = elem.name] ELSE viol[i]]

RECURSIVE validateElement(_, _, _)

\* validateChildren: the content model, when there is one, is all that is
\* checked of the children; only under empty content are they handed to
\* validateElement.
validateChildren(elem, elemType, S) ==
    IF elemType = "" THEN <<>>
    ELSE IF S.TypeDefs[elemType].t # "ComplexType"
    THEN IF Len(elem.children) > 0
         THEN <<Violation("cvc-complex-type.2.3", elem.name)>> ELSE <<>>
    ELSE LET ct == S.TypeDefs[elemType] IN
         IF ct.Content.Kind # "nil"
         THEN SetElement(ContentValidate(ct.Content, elem, S), elem)
         ELSE (IF Len(elem.children) > 0
               THEN <<Violation("cvc-complex-type.2.1", elem.name)>> ELSE <<>>)
              \o Concat([i \in 1..Len(elem.children) |->
                            validateElement(elem.children[i], elemType, S)])

validateElement(elem, parentType, S) ==
    IF elem.name \notin DOMAIN S.ElementDecls
    THEN (IF parentType = "" THEN <<Violation("cvc-elt.1", elem.name)>> ELSE <<>>)
         \o Concat([i \in 1..Len(elem.children) |-> validateElement(elem.children[i], "", S)])
    ELSE LET decl == S.ElementDecls[elem.name] IN
         (IF decl.Abstract THEN <<Violation("cvc-elt.2", elem.name)>> ELSE <<>>)
         \o (IF decl.Type # "" /\ S.TypeDefs[decl.Type].Abstract
             THEN <<Violation("cvc-type.2", elem.name)>> ELSE <<>>)
         \o (IF decl.Type # "" /\ S.TypeDefs[decl.Type].t # "ComplexType"
             THEN TypeValidate(decl.Type, elem, S) ELSE <<>>)
         \o validateAttributes(elem, decl.Type, S)
         \o validateChildren(elem, decl.Type, S)

\* The elements of a document in document order.
RECURSIVE Elements(_)
Elements(elem) ==
    <<elem>> \o Concat([i \in 1..Len(elem.children) |-> Elements(elem.children[i])])

\* collectIDsAndRefs: the attribute named "id" is an ID, the attribute named
\* "ref" an IDREF; a second element with the same ID value is cvc-id.2.
RECURSIVE collectIDs(_, _, _)
collectIDs(elems, seen, viol) ==
    IF elems = <<>> THEN [ids |-> seen, violations |-> viol]
    ELSE LET e == Head(elems) IN
         IF "id" \notin AttrNames(e) THEN collectIDs(Tail(elems), seen, viol)
         ELSE IF GetAttribute(e, "id") \in seen
              THEN collectIDs(Tail(elems), seen, Append(viol, Violation("cvc-id.2", e.name)))
              ELSE collectIDs(Tail(elems), seen \cup {GetAttribute(e, "id")}, viol)

collectRefs(elems) ==
    {GetAttribute(elems[i], "ref") :
        i \in {j \in 1..Len(elems) : GetAttribute(elems[j], "ref") # ""}}

\* The sequences that list every member of a set once: the orders in
\* which a range over a Go map with these keys can yield them.
Orders(set) ==
    {sq \in [1..Cardinality(set) -> set] :
        \A i, j \in 1..Cardinality(set) : sq[i] = sq[j] => i = j}

\* v.idRefs[idref]: the last element, in document order, that carries it.
idRefElement(elems, idref) ==
    elems[CHOOSE i \in 1..Len(elems) :
             /\ GetAttribute(elems[i], "ref") = idref
             /\ \A j \in (i + 1)..Len(elems) : GetAttribute(elems[j], "ref") # idref]

\* validateIDREFs: an IDREF with no ID of that value is cvc-id.1, reported
\* on the last element that carries it; refs is the order in which the
\* range over v.idRefs yields the keys.
validateIDREFs(elems, refs, idset) ==
    Concat([i \in 1..Len(refs) |->
        IF refs[i] \notin idset
        THEN <<Violation("cvc-id.1", idRefElement(elems, refs[i]).name)>> ELSE <<>>])

(***************************************************************************)
(* Identity constraints.                                                   *)
(***************************************************************************)
Named(elems, name) == SelectSeq(elems, LAMBDA e : e.name = name)

\* findMatchingChildren
RECURSIVE findMatchingChildren(_, _)
findMatchingChildren(elem, steps) ==
    IF steps = <<>> THEN <<elem>>
    ELSE IF Head(steps) = "." THEN findMatchingChildren(elem, Tail(steps))
    ELSE Concat([i \in 1..Len(elem.children) |->
            IF elem.children[i].name # Head(steps) THEN <<>>
            ELSE IF Tail(steps) = <<>> THEN <<elem.children[i]>>
            ELSE findMatchingChildren(elem.children[i], Tail(steps))])

\* evaluateSelector / evaluateSimpleXPath; findMatchingDescendants is the
\* elements of that name in document order, the root included.
evaluateSelector(doc, selector) ==
    IF selector.steps = <<>> THEN <<>>
    ELSE IF selector.descendants
    THEN LET results == Named(Elements(doc), Head(selector.steps)) IN
         IF Len(selector.steps) > 1
         THEN Concat([i \in 1..Len(results) |->
                         findMatchingChildren(results[i], Tail(selector.steps))])
         ELSE results
    ELSE findMatchingChildren(doc, selector.steps)

\* extractFieldValues, then strings.Join(fieldValues, "|")
RECURSIVE Join(_)
Join(values) ==
    IF Len(values) = 0 THEN ""
    ELSE IF Len(values) = 1 THEN values[1]
    ELSE values[1] \o "|" \o Join(Tail(values))

extractFieldValues(node, fields) == [i \in 1..Len(fields) |-> GetAttribute(node, fields[i])]

\* The first pass of IdentityConstraintValidator.Validate for one key or
\* unique constraint: each selected node's key value is looked up in, and
\* then added to, keyValues[name].
RECURSIVE collectKeys(_, _, _, _)
collectKeys(constraint, nodes, kv, viol) ==
    IF nodes = <<>> THEN [keyValues |-> kv, violations |-> viol]
    ELSE LET node == Head(nodes)
             fieldValues == extractFieldValues(node, constraint.Fields)
             keyValue == Join(fieldValues)
             dup == IF keyValue \in kv
                    THEN <<Violation("cvc-identity-constraint.4.1", node.name)>> ELSE <<>>
             nulls == IF constraint.Kind = "key"
                      THEN Concat([i \in 1..Len(fieldValues) |->
                              IF fieldValues[i] = ""
                              THEN <<Violation("cvc-identity-constraint.4.2.2", node.name)>>
                              ELSE <<>>])
                      ELSE <<>>
         IN IF Len(fieldValues) = 0 THEN collectKeys(constraint, Tail(nodes), kv, viol)
            ELSE collectKeys(constraint, Tail(nodes), kv \cup {keyValue}, viol \o dup \o nulls)

\* The second pass for one keyref constraint.
checkKeyRefs(constraint, doc, constraints, kv) ==
    IF constraint.Refer \notin {c.Name : c \in constraints}
    THEN <<Violation("src-identity-constraint.2.2.2", "")>>
    ELSE LET nodes == evaluateSelector(doc, constraint.Selector) IN
         Concat([i \in 1..Len(nodes) |->
            IF /\ Len(constraint.Fields) > 0
               /\ Join(extractFieldValues(nodes[i], constraint.Fields)) \notin kv[constraint.Refer]
            THEN <<Violation("cvc-identity-constraint.4.3", nodes[i].name)>> ELSE <<>>])

\* The members of a set in one fixed order.
RECURSIVE InSomeOrder(_)
InSomeOrder(cs) ==
    IF cs = {} THEN <<>>
    ELSE LET c == CHOOSE x \in cs : TRUE IN <<c>> \o InSomeOrder(cs \ {c})

RECURSIVE firstPass(_, _, _, _)
firstPass(cseq, doc, kv, viol) ==
    IF cseq = <<>> THEN [keyValues |-> kv, violations |-> viol]
    ELSE LET c == Head(cseq)
             r == collectKeys(c, evaluateSelector(doc, c.Selector), kv[c.Name], <<>>)
         IN IF c.Kind \in {"key", "unique"}
            THEN firstPass(Tail(cseq), doc, [kv EXCEPT ![c.Name] = r.keyValues],
                           viol \o r.violations)
            ELSE firstPass(Tail(cseq), doc, kv, viol)

\* IdentityConstraintValidator.Validate: the violations and the keyValues
\* it leaves, when the first range over v.constraints yields them in the
\* order first and the second range in the order second.
IdentityValidate(first, second, kv, doc) ==
    LET p1 == firstPass(first, doc, kv, <<>>)
        p2 == Concat([i \in 1..Len(second) |->
                 IF second[i].Kind = "keyref"
                 THEN checkKeyRefs(second[i], doc, Range(second), p1.keyValues) ELSE <<>>])
    IN [keyValues |-> p1.keyValues, violations |-> p1.violations \o p2]

\* NewValidator: every constraint of every global element declaration is
\* added, each with an empty keyValues map.
Constraints(S) == UNION {S.ElementDecls[e].Constraints : e \in DOMAIN S.ElementDecls}

NewKeyValues(S) == [n \in {c.Name : c \in Constraints(S)} |-> {}]

(***************************************************************************)
(* The instance documents.                                                 *)
(***************************************************************************)
Leaf(name) == Element(name, {}, <<>>)

Item(code) == Element("item", {Attr("code", code)}, <<>>)

Catalog(children) == Element("catalog", {Attr("version", "1")}, children)

Book(isbn) == Element("book", {Attr("isbn", isbn)}, <<>>)

Loan(book) == Element("loan", {Attr("book", book)}, <<>>)

Library(children) == Element("library", {}, children)

VDocs ==
    { Catalog(<<Item("a")>>),
      Catalog(<<Item("a"), Item("b")>>),
      Catalog(<<Item("a"), Item("a")>>),
      Catalog(<<Item("b"), Element("note", {}, <<>>)>>),
      Catalog(<<Element("item", {}, <<>>)>>),
      Element("catalog", {}, <<Item("a")>>),
      Element("catalog", {Attr("version", "1"), Attr("id", "x")},
              <<Element("item", {Attr("code", "a"), Attr("id", "x"), Attr("ref", "y")}, <<>>)>>),
      Element("fleet", {}, <<Element("vehicle", {}, <<Leaf("brand")>>)>>),
      Element("fleet", {}, <<Element("car", {}, <<Leaf("brand"), Leaf("doors")>>)>>),
      Element("fleet", {}, <<Element("motorcycle", {}, <<Leaf("engine")>>)>>),
      Element("fleet", {}, <<Element("bike", {}, <<Leaf("brand")>>)>>),
      Element("fleet", {}, <<Element("car", {}, <<Leaf("doors")>>)>>),
      Element("fleet", {}, <<Element("sportscar", {}, <<Leaf("brand"), Leaf("doors")>>)>>),
      Library(<<Book("a"), Loan("a")>>),
      Library(<<Book("a"), Loan("b")>>),
      Library(<<Book("b"), Loan("b")>>),
      Library(<<Loan("a"), Book("a")>>),
      Library(<<Book("a"), Book("a"), Loan("a"), Loan("a")>>),
      Library(<<Book("a"),
                Element("loan", {Attr("book", "a"), Attr("ref", "y")}, <<>>),
                Element("loan", {Attr("book", "b"), Attr("ref", "z")}, <<>>)>>) }

MaxCalls == 3

\* The resolver before any schema is parsed.
ResolveIdle ==
    /\ heap = <<>>
    /\ groups = <<>>
    /\ content = <<>>
    /\ elemTypes = {}
    /\ rpc = "idle"
    /\ todo = {}
    /\ stack = <<>>
    /\ visited = {}
    /\ epoch = 0
    /\ runs = 0

\* NewValidator(schema)
InitValidate ==
    /\ ResolveIdle
    /\ CompileIdle
    /\ LoaderIdle
    /\ CompatIdle
    /\ MatchIdle
    /\ FacetIdle
    /\ WildcardIdle
    /\ OccursIdle
    /\ NormalizeIdle
    /\ TerminateIdle
    /\ CacheIdle
    /\ vschema \in VSchemas
    /\ vdoc = Leaf("")
    /\ violations = <<>>
    /\ ids = {}
    /\ idRefs = {}
    /\ keyValues = NewKeyValues(vschema)
    /\ calls = 0

\* What one Validate(doc) call on a validator for schema S with the given
\* keyValues returns and leaves, for one order of each of its three ranges
\* over a map.
Validated(S, kv, doc, refOrder, first, second) ==
    LET elems == Elements(doc)
        collected == collectIDs(elems, {}, <<>>)
        idc == IdentityValidate(first, second, kv, doc)
    IN [ids |-> collected.ids,
        idRefs |-> collectRefs(elems),
        keyValues |-> idc.keyValues,
        violations |-> collected.violations
                       \o validateElement(doc, "", S)
                       \o validateIDREFs(elems, refOrder, collected.ids)
                       \o idc.violations]

\* Validator.Validate(doc)
Validate(doc) ==
    /\ calls < MaxCalls
    /\ \E refOrder \in Orders(collectRefs(Elements(doc))),
          first \in Orders(Constraints(vschema)),
          second \in Orders(Constraints(vschema)) :
          LET r == Validated(vschema, keyValues, doc, refOrder, first, second)
          IN /\ ids' = r.ids
             /\ idRefs' = r.idRefs
             /\ keyValues' = r.keyValues
             /\ violations' = r.violations
    /\ calls' = calls + 1
    /\ vdoc' = doc
    /\ UNCHANGED <<vschema, notValidate>>

NextValidate == \E doc \in VDocs : Validate(doc)

SpecValidate == InitValidate /\ [][NextValidate]_vars

HasViolation(code, element) ==
    \E i \in 1..Len(violations) :
        violations[i].Code = code /\ violations[i].Element = element

\* C3: a Validate call that returned no violations, repeated on the same
\* Validator with the same document, again returns no violations.
C3_RevalidateClean ==
    [][(calls >= 1 /\ violations = <<>> /\ calls' = calls + 1 /\ vdoc' = vdoc)
          => violations' = <<>>]_vars

\* C11: for a fixed schema and document, every Validate call on a fresh
\* Validator returns the same violations in the same order: whatever order
\* the ranges over v.idRefs and v.constraints take, the result is the one
\* obtained with one fixed order.
C11_DeterministicViolations ==
    calls = 1 =>
        violations =
            Validated(vschema, NewKeyValues(vschema), vdoc,
                      InSomeOrder(collectRefs(Elements(vdoc))),
                      InSomeOrder(Constraints(vschema)),
                      InSomeOrder(Constraints(vschema))).violations

\* What the particles of a type's content declare for a child: the type
\* of the inline declaration of that name, or of the global declaration a
\* reference of that name points to; "" when there is none.
ChildType(type, child, S) ==
    LET c == S.TypeDefs[type].Content
        ps == IF IsModelGroup(c) THEN c.Particles ELSE <<>>
        hit == {i \in 1..Len(ps) : ps[i].ref = child.name}
    IN IF hit = {} THEN ""
       ELSE LET p == ps[CHOOSE i \in hit : TRUE] IN
            IF p.t = "ElementDecl" THEN p.type
            ELSE IF p.ref \in DOMAIN S.ElementDecls THEN S.ElementDecls[p.ref].Type ELSE ""

Required(type, S) ==
    {S.TypeDefs[type].Attributes[i].Name :
        i \in {j \in 1..Len(S.TypeDefs[type].Attributes) :
                  S.TypeDefs[type].Attributes[j].Use = "required"}}

\* The names of the elements, at any depth, that are matched to a
\* declaration with a complex type and lack one of its required attributes.
RECURSIVE LackRequired(_, _, _)
LackRequired(elem, type, S) ==
    IF type = "" \/ S.TypeDefs[type].t # "ComplexType" THEN {}
    ELSE (IF Required(type, S) \ AttrNames(elem) # {} THEN {elem.name} ELSE {})
         \cup UNION {LackRequired(elem.children[i], ChildType(type, elem.children[i], S), S) :
                        i \in 1..Len(elem.children)}

\* C10: every element of the validated document that is matched to a
\* declaration with a complex type and lacks a required attribute, at any
\* depth, is reported with cvc-complex-type.4.
C10_AttributesAtAnyDepth ==
    (calls >= 1 /\ vdoc.name \in DOMAIN vschema.ElementDecls)
        => \A n \in LackRequired(vdoc, vschema.ElementDecls[vdoc.name].Type, vschema) :
               HasViolation("cvc-complex-type.4", n)

\* Type derivation as the schema document declares it (the base links of
\* the parsed type definitions).
RECURSIVE DerivedFrom(_, _, _)
DerivedFrom(actual, expected, parsed) ==
    \/ actual = expected
    \/ /\ actual \in DOMAIN parsed
       /\ parsed[actual].Content.Kind = "complexContent"
       /\ DerivedFrom(parsed[actual].Content.Base, expected, parsed)

\* C4: a child of <fleet> other than <vehicle> whose declared type is not
\* VehicleType or derived from it is not accepted in place of vehicle: a
\* violation is reported for it.
C4_NonDerivedMemberRejected ==
    (calls >= 1 /\ vschema = FleetSchema /\ vdoc.name = "fleet")
        => \A i \in 1..Len(vdoc.children) :
              LET E == vdoc.children[i].name IN
              (/\ E # "vehicle"
               /\ E \in DOMAIN FleetSchema.ElementDecls
               /\ ~DerivedFrom(FleetSchema.ElementDecls[E].Type, "VehicleType",
                               FleetParsedTypeDefs))
                 => \E j \in 1..Len(violations) : violations[j].Element = E

\* The key values of the nodes a constraint selects in a document.
KeySet(constraint, doc) ==
    LET nodes == evaluateSelector(doc, constraint.Selector)
    IN  {Join(extractFieldValues(nodes[i], constraint.Fields)) : i \in 1..Len(nodes)}

\* The constraint of a schema with a given name.
ConstraintNamed(S, name) == CHOOSE c \in Constraints(S) : c.Name = name

\* The number of nodes a keyref selects whose key value is not a key value
\* of the referred constraint anywhere in the document.
Unmatched(keyref, S, doc) ==
    LET nodes == evaluateSelector(doc, keyref.Selector)
    IN  Cardinality({i \in 1..Len(nodes) :
            Join(extractFieldValues(nodes[i], keyref.Fields))
                \notin KeySet(ConstraintNamed(S, keyref.Refer), doc)})

\* C14: a keyref node is reported with cvc-identity-constraint.4.3 exactly
\* when its key value is absent from the key values the referred constraint
\* selects in the whole document being validated.
C14_KeyrefAgainstCompleteKeySet ==
    (calls >= 1 /\ vschema = LibrarySchema) =>
        Len(SelectSeq(violations, LAMBDA v : v.Code = "cvc-identity-constraint.4.3"))
            = Unmatched(ConstraintNamed(LibrarySchema, "bookRef"), LibrarySchema, vdoc)

\* The same for the first call on a Validator only.
C14_OnFreshValidator ==
    (calls = 1 /\ vschema = LibrarySchema) =>
        Len(SelectSeq(violations, LAMBDA v : v.Code = "cvc-identity-constraint.4.3"))
            = Unmatched(ConstraintNamed(LibrarySchema, "bookRef"), LibrarySchema, vdoc)

\* E names X as its substitution-group head, directly or through a chain
\* of heads.
RECURSIVE HeadChain(_, _, _)
HeadChain(E, X, decls) ==
    /\ E \in DOMAIN decls
    /\ decls[E].SubstitutionGroup # ""
    /\ \/ decls[E].SubstitutionGroup = X
       \/ HeadChain(decls[E].SubstitutionGroup, X, decls)

\* C12: a child of <fleet> whose chain of substitution-group heads leads to
\* vehicle, with a type derived from VehicleType, is accepted where vehicle
\* is expected: it is not reported as an unexpected element.
C12_TransitiveSubstitution ==
    (calls >= 1 /\ vschema = FleetSchema /\ vdoc.name = "fleet")
        => \A i \in 1..Len(vdoc.children) :
              LET E == vdoc.children[i].name IN
              (/\ HeadChain(E, "vehicle", FleetElementDecls)
               /\ DerivedFrom(FleetElementDecls[E].Type, "VehicleType", FleetParsedTypeDefs))
                 => ~HasViolation("cvc-complex-type.2.4.d", E)

(***************************************************************************)
(* The content-model matcher on its own: Validate on a document            *)
(* <root>...</root> whose children are empty elements, under a schema that *)
(* declares root with the content model mGroup and the elements A, B and C *)
(* of type string.  X is an element of another namespace that the schema   *)
(* does not declare.                                                       *)
(***************************************************************************)
\* sequence(A 1..1, B 0..unbounded)
SeqAThenBs ==
    ModelGroup("sequence", <<ElementRef("A", 1, 1), ElementRef("B", 0, -1)>>, 1, 1)

\* sequence(A 0..1, B 1..1): an optional element
OptionalElement ==
    ModelGroup("sequence", <<ElementDecl("A", "string", 0, 1), ElementRef("B", 1, 1)>>, 1, 1)

\* sequence(any ##other 0..1, B 1..1): an optional wildcard
OptionalWildcard ==
    ModelGroup("sequence", <<AnyElement(<<"##other">>, "lax", 0, 1), ElementRef("B", 1, 1)>>, 1, 1)

\* sequence(sequence(B, C) 0..1, A 1..1): an optional nested sequence
OptionalSequence ==
    ModelGroup("sequence",
               <<NestedGroup("sequence", <<ElementRef("B", 1, 1), ElementRef("C", 1, 1)>>, 0, 1),
                 ElementRef("A", 1, 1)>>, 1, 1)

\* sequence(choice(B | C) 0..1, A 1..1): an optional nested choice
OptionalChoice ==
    ModelGroup("sequence",
               <<NestedGroup("choice", <<ElementRef("B", 1, 1), ElementRef("C", 1, 1)>>, 0, 1),
                 ElementRef("A", 1, 1)>>, 1, 1)

\* sequence(sequence(any ##other 1..1) 0..1, A 1..1): an optional nested
\* sequence that holds a wildcard
OptionalWildcardGroup ==
    ModelGroup("sequence",
               <<NestedGroup("sequence", <<AnyElement(<<"##other">>, "lax", 1, 1)>>, 0, 1),
                 ElementRef("A", 1, 1)>>, 1, 1)

\* choice(A | B) minOccurs=0, as the whole content of the complex type
ChoiceContent ==
    ModelGroup("choice", <<ElementRef("A", 1, 1), ElementRef("B", 1, 1)>>, 0, 1)

\* sequence(sequence(B, C) 1..1, A 1..1): a nested sequence followed by a
\* further particle
NestedThenElement ==
    ModelGroup("sequence",
               <<NestedGroup("sequence", <<ElementRef("B", 1, 1), ElementRef("C", 1, 1)>>, 1, 1),
                 ElementRef("A", 1, 1)>>, 1, 1)

MGroups ==
    {SeqAThenBs, OptionalElement, OptionalWildcard, OptionalSequence, OptionalChoice,
     OptionalWildcardGroup, ChoiceContent, NestedThenElement}

MNames == {"A", "B", "C", "X"}

MaxChildren == 3

MatchSchema(group) ==
    [ElementDecls |-> ("root" :> GlobalElement("root", "RootT", "", FALSE, {}))
                      @@ [n \in {"A", "B", "C"} |-> GlobalElement(n, "string", "", FALSE, {})],
     TypeDefs |-> ("RootT" :> ComplexType("RootT", <<>>, group))
                  @@ ("string" :> SimpleType("string")),
     SubstitutionGroups |-> <<>>]

MatchDoc(names) == Element("root", {}, [i \in 1..Len(names) |-> Leaf(names[i])])

InitMatch ==
    /\ ResolveIdle
    /\ ValidateIdle
    /\ CompileIdle
    /\ LoaderIdle
    /\ CompatIdle
    /\ FacetIdle
    /\ WildcardIdle
    /\ OccursIdle
    /\ NormalizeIdle
    /\ TerminateIdle
    /\ CacheIdle
    /\ mGroup \in MGroups
    /\ mChildren \in UNION {[1..n -> MNames] : n \in 0..MaxChildren}
    /\ mViolations = <<>>
    /\ mpc = "call"

\* NewValidator(schema).Validate(doc): the document has no ID or IDREF
\* attribute and the schema no identity constraint, so the maps ranged over
\* are empty.
ValidateRoot ==
    /\ mpc = "call"
    /\ mViolations' = Validated(MatchSchema(mGroup), NewKeyValues(MatchSchema(mGroup)),
                                MatchDoc(mChildren), <<>>, <<>>, <<>>).violations
    /\ mpc' = "done"
    /\ UNCHANGED <<mGroup, mChildren, notMatch>>

NextMatch == ValidateRoot

SpecMatch == InitMatch /\ [][NextMatch]_vars

\* C18: under sequence(A 1..1, B 0..unbounded) the children A, B, ..., B
\* (among them [A, B, B]) produce no violations, and the children [B, A]
\* produce exactly one violation, cvc-complex-type.2.4.d on the B.
C18_SequenceOrder ==
    (mpc = "done" /\ mGroup = SeqAThenBs)
        => /\ (/\ Len(mChildren) >= 1
               /\ mChildren[1] = "A"
               /\ \A i \in 2..Len(mChildren) : mChildren[i] = "B")
                  => mViolations = <<>>
           /\ mChildren = <<"B", "A">>
                  => mViolations = <<Violation("cvc-complex-type.2.4.d", "B")>>

C18_OutOfOrderReported ==
    /\ mpc = "done"
    /\ mGroup = SeqAThenBs
    /\ mChildren = <<"B", "A">>
    /\ Len(mViolations) = 1

\* The content models with one particle of minOccurs=0, maxOccurs=1, each
\* with the children that leave that particle out and satisfy the rest.
OptionalAbsent ==
    { <<OptionalElement, <<"B">> >>,
      <<OptionalWildcard, <<"B">> >>,
      <<OptionalSequence, <<"A">> >>,
      <<OptionalChoice, <<"A">> >>,
      <<OptionalWildcardGroup, <<"A">> >>,
      <<ChoiceContent, <<>> >> }

\* C19: a particle with minOccurs=0 and maxOccurs=1 that no child matches
\* is accepted without a violation, be it an element, a wildcard, a nested
\* model group or a choice group that is the content of the complex type.
C19_OptionalParticleAbsent ==
    (mpc = "done" /\ <<mGroup, mChildren>> \in OptionalAbsent) => mViolations = <<>>

\* The sequences whose first particle is a nested sequence(B, C) and whose
\* next particle is the element A, with the children B, C, A: a match for
\* the nested group followed by a match for the particle after it.
NestedThenFollowing ==
    { <<NestedThenElement, <<"B", "C", "A">> >>,
      <<OptionalSequence, <<"B", "C", "A">> >> }

\* C25: under a sequence that holds a nested sequence group followed by
\* further particles, children that are a valid match for the nested group
\* followed by valid matches for the following particles yield no
\* violations.
C25_NestedSequenceThenParticles ==
    (mpc = "done" /\ <<mGroup, mChildren>> \in NestedThenFollowing) => mViolations = <<>>

\* The same when the nested group's match ends the children: B, C under
\* sequence(sequence(B, C), A) lacks A only.
C25_NestedSequenceAlone ==
    (mpc = "done" /\ mGroup = NestedThenElement /\ mChildren = <<"B", "C">>)
        => \A i \in 1..Len(mViolations) : mViolations[i].Code # "cvc-complex-type.2.4.d"

(***************************************************************************)
(* The length facets.  A value is a sequence of characters: "a" is an      *)
(* ASCII letter (a hex digit and a base64 character), "U+00E9" a character *)
(* of two bytes in UTF-8, " " a space and "=" the base64 padding.          *)
(***************************************************************************)
Chars == {"a", "U+00E9", " ", "="}

\* len(value): the bytes of the UTF-8 string
RECURSIVE ByteLen(_)
ByteLen(value) ==
    IF value = <<>> THEN 0
    ELSE (IF Head(value) = "U+00E9" THEN 2 ELSE 1) + ByteLen(Tail(value))

\* len([]rune(value))
RuneLen(value) == Len(value)

\* strings.Contains(value, " ")
ContainsSpace(value) == \E i \in 1..Len(value) : value[i] = " "

\* len(strings.Fields(value)): the maximal runs of characters other than
\* white space
FieldCount(value) ==
    Cardinality({i \in 1..Len(value) : value[i] # " " /\ (i = 1 \/ value[i - 1] = " ")})

\* strings.HasSuffix(value, suffix)
HasSuffix(value, suffix) ==
    /\ Len(value) >= Len(suffix)
    /\ SubSeq(value, Len(value) - Len(suffix) + 1, Len(value)) = suffix

\* The built-in types (builtinTypes) that the simple types below name.
BuiltinTypes == {"string", "hexBinary", "base64Binary"}

IsBuiltinType(name) == name \in BuiltinTypes

\* A *SimpleType as facet validation reads it: List is the item type of a
\* list type, "" when the type is no list; Base and Facets are those of its
\* Restriction, "" and <<>> when it has none.
FacetedType(name, list, base, facets) ==
    [t |-> "SimpleType", QName |-> name, List |-> list, Base |-> base, Facets |-> facets]

\* baseType == nil
NilType == [t |-> "nil"]

\* getLength(value, baseType)
getLength(value, baseType) ==
    IF ContainsSpace(value) /\ baseType.t = "SimpleType" /\ baseType.List # ""
    THEN FieldCount(value)
    ELSE IF IsBuiltinType("hexBinary") THEN ByteLen(value) \div 2
    ELSE IF IsBuiltinType("base64Binary")
    THEN ((ByteLen(value) - (IF HasSuffix(value, <<"=", "=">>) THEN 2
                             ELSE IF HasSuffix(value, <<"=">>) THEN 1 ELSE 0)) * 3) \div 4
    ELSE RuneLen(value)

Facet(kind, value) == [kind |-> kind, Value |-> value]

\* Whether a measured length meets a length, minLength or maxLength facet.
Meets(facet, length) ==
    CASE facet.kind = "length" -> length = facet.Value
      [] facet.kind = "minLength" -> length >= facet.Value
      [] facet.kind = "maxLength" -> length <= facet.Value

\* LengthFacet.Validate, MinLengthFacet.Validate, MaxLengthFacet.Validate
FacetValidate(facet, value, baseType) ==
    IF Meets(facet, getLength(value, baseType)) THEN "" ELSE "facet"

\* The first error of a sequence of checks, "" when none fails.
RECURSIVE FirstError(_)
FirstError(errs) ==
    IF errs = <<>> THEN "" ELSE IF Head(errs) # "" THEN Head(errs) ELSE FirstError(Tail(errs))

\* ValidateFacets(value, facets, baseType), no whiteSpace facet among them
ValidateFacets(value, facets, baseType) ==
    FirstError([i \in 1..Len(facets) |-> FacetValidate(facets[i], value, baseType)])

\* validateHexBinary: an even number of bytes, all of them hex digits
validateHexBinary(value) ==
    IF ByteLen(value) % 2 = 0 /\ \A i \in 1..Len(value) : value[i] = "a" THEN "" ELSE "lexical"

\* The "=" at the end of a value
Padding(value) ==
    IF HasSuffix(value, <<"=", "=">>) THEN 2 ELSE IF HasSuffix(value, <<"=">>) THEN 1 ELSE 0

\* validateBase64Binary: base64.StdEncoding.DecodeString accepts quanta of
\* four characters of the alphabet, the last one padded by at most two "=".
validateBase64Binary(value) ==
    IF /\ Len(value) % 4 = 0
       /\ \A i \in 1..(Len(value) - Padding(value)) : value[i] = "a"
       /\ \A i \in (Len(value) - Padding(value) + 1)..Len(value) : value[i] = "="
    THEN "" ELSE "lexical"

\* GetBuiltinTypeValidator(typeName)(value)
BuiltinValidate(typeName, value) ==
    CASE typeName = "hexBinary" -> validateHexBinary(value)
      [] typeName = "base64Binary" -> validateBase64Binary(value)
      [] OTHER -> ""

\* ValidateListType for a list of xs:string items
ValidateListType(value) ==
    IF FieldCount(value) = 0 /\ value # <<>> THEN "list" ELSE ""

\* schema.TypeDefs: the list type tokens = list of xs:string
FacetTypeDefs == ("tokens" :> FacetedType("tokens", "string", "", <<>>))

\* validateSimpleTypeValue(value, st, schema) for st.Restriction # nil
validateSimpleTypeValue(value, st, typeDefs) ==
    LET baseType == IF st.Base \in DOMAIN typeDefs THEN typeDefs[st.Base]
                    ELSE FacetedType(st.Base, "", "", <<>>)
        baseErr == IF IsBuiltinType(st.Base) THEN BuiltinValidate(st.Base, value)
                   ELSE IF st.Base \in DOMAIN typeDefs /\ typeDefs[st.Base].List # ""
                   THEN ValidateListType(value)
                   ELSE ""
    IN IF baseErr # "" THEN baseErr
       ELSE IF ~IsBuiltinType(st.Base) /\ st.Base \in DOMAIN typeDefs /\ baseType.List # ""
       THEN FirstError([i \in 1..Len(st.Facets) |->
                           IF Meets(st.Facets[i], FieldCount(value)) THEN "" ELSE "facet"])
       ELSE FirstError([i \in 1..Len(st.Facets) |-> FacetValidate(st.Facets[i], value, baseType)])

MaxChars == 3

MaxRun == 10

MaxFacet == 8

\* Every value of up to MaxChars characters, and the runs of up to MaxRun
\* letters.
FacetValues ==
    UNION {[1..n -> Chars] : n \in 0..MaxChars} \cup {[i \in 1..n |-> "a"] : n \in 0..MaxRun}

FacetBases == {"string", "hexBinary", "base64Binary", "tokens"}

InitFacet ==
    /\ ResolveIdle
    /\ ValidateIdle
    /\ CompileIdle
    /\ LoaderIdle
    /\ CompatIdle
    /\ MatchIdle
    /\ WildcardIdle
    /\ OccursIdle
    /\ NormalizeIdle
    /\ TerminateIdle
    /\ CacheIdle
    /\ fValue \in FacetValues
    /\ fType \in {FacetedType("restricted", "", base, <<Facet(kind, n)>>) :
                     base \in FacetBases, kind \in {"length", "minLength", "maxLength"},
                     n \in 0..MaxFacet}
    /\ fErr = ""
    /\ fpc = "call"

\* SimpleType.Validate -> validateSimpleTypeValue(content, st, schema)
ValidateSimpleTypeValue ==
    /\ fpc = "call"
    /\ fErr' = validateSimpleTypeValue(fValue, fType, FacetTypeDefs)
    /\ fpc' = "validateSimpleTypeValue"
    /\ UNCHANGED <<fValue, fType, notFacet>>

\* Validator.validateSimpleTypeFacets(value, simpleType): baseType is
\* v.schema.TypeDefs[Base], nil for a built-in base.
ValidateSimpleTypeFacets ==
    /\ fpc = "call"
    /\ fErr' = ValidateFacets(fValue, fType.Facets,
                              IF fType.Base \in DOMAIN FacetTypeDefs
                              THEN FacetTypeDefs[fType.Base] ELSE NilType)
    /\ fpc' = "validateSimpleTypeFacets"
    /\ UNCHANGED <<fValue, fType, notFacet>>

NextFacet == ValidateSimpleTypeValue \/ ValidateSimpleTypeFacets

SpecFacet == InitFacet /\ [][NextFacet]_vars

\* The length of a value in the unit of its base type: characters for a
\* string, items for a list, octets for hexBinary and base64Binary.
LengthInUnits(value, base) ==
    CASE base = "string" -> Len(value)
      [] base = "tokens" -> FieldCount(value)
      [] base = "hexBinary" -> Len(value) \div 2
      [] base = "base64Binary" -> 3 * (Len(value) \div 4) - Padding(value)

\* C20: a value that is valid for the base type passes a length, minLength
\* or maxLength facet exactly when its length in characters (string base),
\* items (list base) or octets (hexBinary, base64Binary) meets the facet; a
\* string of 10 characters fails maxLength=5 and passes minLength=8.
C20_LengthUnits ==
    (/\ fpc # "call"
     /\ BuiltinValidate(fType.Base, fValue) = ""
     /\ (fType.Base = "tokens" => ValidateListType(fValue) = ""))
        => (fErr = "" <=> Meets(fType.Facets[1], LengthInUnits(fValue, fType.Base)))

(***************************************************************************)
(* SpecWildcard: MatchesWildcard on every namespace attribute of up to     *)
(* MaxTokens tokens, every element namespace and every target namespace    *)
(* of the sets below.                                                      *)
(***************************************************************************)
MaxTokens == 2

WTokens == HashTokens \cup {"urn:t", "urn:o"}

WNamespaces == {"", "urn:t", "urn:o", "urn:x"}

WTargets == {"", "urn:t"}

InitWildcard ==
    /\ ResolveIdle
    /\ ValidateIdle
    /\ CompileIdle
    /\ LoaderIdle
    /\ CompatIdle
    /\ MatchIdle
    /\ FacetIdle
    /\ OccursIdle
    /\ NormalizeIdle
    /\ TerminateIdle
    /\ CacheIdle
    /\ wValue \in UNION {[1..n -> WTokens] : n \in 0..MaxTokens}
    /\ wNamespace \in WNamespaces
    /\ wTarget \in WTargets
    /\ wResult = FALSE
    /\ wpc = "call"

\* constraint := ParseNamespaceConstraint(namespace);
\* return constraint.Matches(elemNS, targetNamespace)
MatchNamespace ==
    /\ wpc = "call"
    /\ wResult' = Matches(ParseNamespaceConstraint(wValue), wNamespace, wTarget)
    /\ wpc' = "done"
    /\ UNCHANGED <<wValue, wNamespace, wTarget, notWildcard>>

NextWildcard == MatchNamespace

SpecWildcard == InitWildcard /\ [][NextWildcard]_vars

\* A namespace attribute that is a list: at least one token, none of them
\* ##any or ##other.
IsNamespaceList(value) ==
    /\ value # <<>>
    /\ \A i \in 1..Len(value) : value[i] \notin {"##any", "##other"}

\* What a list admits: a listed URI equal to the element's namespace, or
\* ##targetNamespace with an element in the target namespace, or ##local
\* with an element in no namespace.
ListAdmits(value, namespace, targetNamespace) ==
    \E i \in 1..Len(value) :
       \/ value[i] \notin HashTokens /\ value[i] = namespace
       \/ value[i] = "##targetNamespace" /\ namespace = targetNamespace
       \/ value[i] = "##local" /\ namespace = ""

\* C21: a wildcard whose namespace attribute is a list matches an element
\* exactly when a listed URI equals the element's namespace, or the list
\* holds ##targetNamespace and the element is in the target namespace, or
\* the list holds ##local and the element has no namespace, wherever the
\* ##-tokens stand in the list.
C21_NamespaceList ==
    (wpc = "done" /\ IsNamespaceList(wValue))
        => (wResult <=> ListAdmits(wValue, wNamespace, wTarget))

\* The same for the lists that start with a URI.
C21_ListStartingWithURI ==
    (wpc = "done" /\ IsNamespaceList(wValue) /\ ~HasHashPrefix(wValue))
        => (wResult <=> ListAdmits(wValue, wNamespace, wTarget))

\* A list that starts with a ##-token and admits the element has been matched.
C21_HashFirstAdmitted ==
    /\ wpc = "done"
    /\ Len(wValue) > 1
    /\ IsNamespaceList(wValue)
    /\ HasHashPrefix(wValue)
    /\ ListAdmits(wValue, wNamespace, wTarget)

(***************************************************************************)
(* SpecOccurs: a schema document                                           *)
(*   <xs:complexType><xs:KIND minOccurs maxOccurs>                         *)
(*       <xs:element name="a" minOccurs maxOccurs/></xs:KIND>              *)
(* for every kind of group and every lexical value of OccursValues ("" is  *)
(* an absent attribute), compiled by LoadSchema, by Parse and by the       *)
(* loader.                                                                 *)
(***************************************************************************)
OccursValues == {"", "0", "1", "2", "unbounded", "-1", "x"}

GroupKinds == {"sequence", "choice", "all"}

\* strconv.Atoi and fmt.Sscanf("%d") on the values above: ok is false for
\* the values that are no integer.
Atoi(s) ==
    CASE s = "0" -> [ok |-> TRUE, n |-> 0]
      [] s = "1" -> [ok |-> TRUE, n |-> 1]
      [] s = "2" -> [ok |-> TRUE, n |-> 2]
      [] s = "-1" -> [ok |-> TRUE, n |-> -1]
      [] OTHER -> [ok |-> FALSE, n |-> 0]

\* isNonNegativeInteger: not empty and every character a digit.
isNonNegativeInteger(s) == s \in {"0", "1", "2"}

\* parseOccurs on the attribute value.
parseOccurs(value, defaultValue) ==
    IF value = "" THEN defaultValue
    ELSE IF value = "unbounded" THEN -1
    ELSE IF Atoi(value).ok THEN Atoi(value).n
    ELSE defaultValue

\* parseModelGroup on the group element and its one inline element.
parseModelGroup(doc) ==
    ModelGroup(doc.Kind,
               <<ElementDecl("a", "", parseOccurs(doc.elemMin, 1), parseOccurs(doc.elemMax, 1))>>,
               parseOccurs(doc.minOccurs, 1), parseOccurs(doc.maxOccurs, 1))

\* validateOccurrences: the errors it adds.
validateOccurrences(minOccurs, maxOccurs) ==
    LET minVal == IF minOccurs # "" THEN Atoi(minOccurs).n ELSE 1
    IN IF minOccurs # "" /\ ~isNonNegativeInteger(minOccurs)
       THEN <<"invalid minOccurs value">>
       ELSE IF maxOccurs # "" /\ maxOccurs # "unbounded"
       THEN IF ~isNonNegativeInteger(maxOccurs)
            THEN <<"invalid maxOccurs value">>
            ELSE IF minVal > Atoi(maxOccurs).n
            THEN <<"minOccurs cannot be greater than maxOccurs">>
            ELSE <<>>
       ELSE <<>>

\* validateModelGroup: validateOccurrences, then the rules of xs:all.
validateModelGroup(doc) ==
    validateOccurrences(doc.minOccurs, doc.maxOccurs)
    \o (IF doc.Kind # "all" THEN <<>>
        ELSE (IF doc.minOccurs # "" /\ doc.minOccurs # "0" /\ doc.minOccurs # "1"
              THEN <<"xs:all minOccurs must be 0 or 1">> ELSE <<>>)
             \o (IF doc.maxOccurs # "" /\ doc.maxOccurs # "1"
                 THEN <<"xs:all maxOccurs must be 1">> ELSE <<>>)
             \o (IF doc.elemMax # "" /\ doc.elemMax # "0" /\ doc.elemMax # "1"
                 THEN <<"elements within xs:all must have maxOccurs of 0 or 1">>
                 ELSE <<>>))

\* ValidateSchema: validateElement on the tree, the group before its child;
\* of validateElementDecl only validateOccurrences can fail here.
ValidateSchema(doc) ==
    validateModelGroup(doc) \o validateOccurrences(doc.elemMin, doc.elemMax)

\* Parse: no check of the occurrence attributes.
ParseSchema(doc) == [err |-> "", schema |-> parseModelGroup(doc)]

\* LoadSchema: ValidateSchema, the first error returned, then Parse.
LoadSchema(doc) ==
    IF Len(ValidateSchema(doc)) > 0
    THEN [err |-> "invalid XSD schema: " \o ValidateSchema(doc)[1], schema |-> ""]
    ELSE ParseSchema(doc)

InitOccurs ==
    /\ ResolveIdle
    /\ ValidateIdle
    /\ CompileIdle
    /\ LoaderIdle
    /\ CompatIdle
    /\ MatchIdle
    /\ FacetIdle
    /\ WildcardIdle
    /\ NormalizeIdle
    /\ TerminateIdle
    /\ CacheIdle
    /\ oDoc \in [Kind : GroupKinds, minOccurs : OccursValues, maxOccurs : OccursValues,
                 elemMin : OccursValues, elemMax : OccursValues]
    /\ oResult = ""
    /\ opc = "call"

\* xsd.LoadSchema(filename)
CallLoadSchema ==
    /\ opc = "call"
    /\ oResult' = LoadSchema(oDoc)
    /\ opc' = "LoadSchema"
    /\ UNCHANGED <<oDoc, notOccurs>>

\* xsd.Parse(doc)
CallParse ==
    /\ opc = "call"
    /\ oResult' = ParseSchema(oDoc)
    /\ opc' = "Parse"
    /\ UNCHANGED <<oDoc, notOccurs>>

\* LoadSchemaWithImports on a document without imports or includes:
\* loadSchemaRecursive hands the document to Parse.
CallLoadSchemaWithImports ==
    /\ opc = "call"
    /\ oResult' = ParseSchema(oDoc)
    /\ opc' = "LoadSchemaWithImports"
    /\ UNCHANGED <<oDoc, notOccurs>>

NextOccurs == CallLoadSchema \/ CallParse \/ CallLoadSchemaWithImports

SpecOccurs == InitOccurs /\ [][NextOccurs]_vars

\* A maxOccurs attribute greater than 1.
ExceedsOne(value) == value \in {"2", "unbounded"}

\* An xs:all group that has, or whose element has, maxOccurs above 1.
AllAboveOne(doc) ==
    doc.Kind = "all" /\ (ExceedsOne(doc.maxOccurs) \/ ExceedsOne(doc.elemMax))

\* C22: compiling a schema in which an xs:all group, or an element directly
\* inside it, has maxOccurs greater than 1 fails with an error, through
\* LoadSchema, Parse and LoadSchemaWithImports alike.
C22_AllMaxOccursRejected ==
    (opc \notin {"idle", "call"} /\ AllAboveOne(oDoc)) => oResult.err # ""

\* The same through LoadSchema only.
C22_ThroughLoadSchema ==
    (opc = "LoadSchema" /\ AllAboveOne(oDoc)) => oResult.err # ""

\* The bounds of a compiled particle: 0 <= minOccurs, and minOccurs <=
\* maxOccurs unless maxOccurs is -1.
BoundsOrdered(p) == 0 <= p.MinOcc /\ (p.MinOcc <= p.MaxOcc \/ p.MaxOcc = -1)

\* C23: in every compiled Schema the group's bounds and its element's bounds
\* are ordered, whatever the minOccurs/maxOccurs attributes of the document.
C23_BoundsOrdered ==
    (opc \notin {"idle", "call"} /\ oResult.err = "")
        => /\ BoundsOrdered(oResult.schema)
           /\ \A i \in 1..Len(oResult.schema.Particles) :
                 BoundsOrdered(oResult.schema.Particles[i])

\* The same for the documents LoadSchema accepts whose particles all carry
\* an explicit numeric maxOccurs.
C23_ExplicitMaxThroughLoadSchema ==
    (opc = "LoadSchema" /\ oResult.err = ""
        /\ isNonNegativeInteger(oDoc.maxOccurs) /\ isNonNegativeInteger(oDoc.elemMax))
        => /\ BoundsOrdered(oResult.schema)
           /\ \A i \in 1..Len(oResult.schema.Particles) :
                 BoundsOrdered(oResult.schema.Particles[i])

(***************************************************************************)
(* SpecNormalize: NormalizeWhiteSpace on every value of up to MaxSpaceLen  *)
(* characters of SpaceChars.  TAB, LF and CR are the three characters      *)
(* "replace" turns into a space; NBSP (U+00A0) is white space for          *)
(* strings.Fields (unicode.IsSpace) and is not touched by "replace".       *)
(***************************************************************************)
SpaceChars == {"a", " ", "TAB", "LF", "CR", "NBSP"}

MaxSpaceLen == 3

\* unicode.IsSpace on the characters above.
IsSpace(c) == c \in {" ", "TAB", "LF", "CR", "NBSP"}

\* strings.ReplaceAll(s, old, new) for one-character old and new.
ReplaceAll(s, old, new) == [i \in 1..Len(s) |-> IF s[i] = old THEN new ELSE s[i]]

\* strings.Fields(s): the maximal runs of characters that are not white
\* space.  cur is the field being read, acc the fields read so far.
RECURSIVE FieldsFrom(_, _, _, _)
FieldsFrom(s, i, cur, acc) ==
    IF i > Len(s) THEN (IF cur = <<>> THEN acc ELSE Append(acc, cur))
    ELSE IF IsSpace(s[i])
    THEN FieldsFrom(s, i + 1, <<>>, IF cur = <<>> THEN acc ELSE Append(acc, cur))
    ELSE FieldsFrom(s, i + 1, Append(cur, s[i]), acc)

Fields(s) == FieldsFrom(s, 1, <<>>, <<>>)

\* strings.Join(elems, sep)
RECURSIVE JoinStrings(_, _)
JoinStrings(elems, sep) ==
    IF elems = <<>> THEN <<>>
    ELSE IF Len(elems) = 1 THEN elems[1]
    ELSE elems[1] \o sep \o JoinStrings(Tail(elems), sep)

\* A collapse that merges each pair of adjacent spaces in one pass, as
\* strings.ReplaceAll(value, "  ", " ") does.
RECURSIVE squeezePairs(_)
squeezePairs(s) ==
    IF Len(s) < 2 THEN s
    ELSE IF s[1] = " " /\ s[2] = " "
    THEN <<" ">> \o squeezePairs(SubSeq(s, 3, Len(s)))
    ELSE <<s[1]>> \o squeezePairs(Tail(s))

normalizeByPairs(value, whiteSpace) ==
    IF whiteSpace = "preserve" THEN value
    ELSE squeezePairs(ReplaceAll(ReplaceAll(ReplaceAll(value, "TAB", " "), "LF", " "),
                                 "CR", " "))

\* NormalizeWhiteSpace: "collapse" calls itself with "replace" first.
NormalizeWhiteSpace(value, whiteSpace) ==
    CASE whiteSpace = "replace" ->
            ReplaceAll(ReplaceAll(ReplaceAll(value, "TAB", " "), "LF", " "), "CR", " ")
      [] whiteSpace = "collapse" ->
            JoinStrings(Fields(ReplaceAll(ReplaceAll(ReplaceAll(value, "TAB", " "), "LF", " "),
                                          "CR", " ")),
                        <<" ">>)
      [] OTHER -> value

InitNormalize ==
    /\ ResolveIdle
    /\ ValidateIdle
    /\ CompileIdle
    /\ LoaderIdle
    /\ CompatIdle
    /\ MatchIdle
    /\ FacetIdle
    /\ WildcardIdle
    /\ OccursIdle
    /\ TerminateIdle
    /\ CacheIdle
    /\ nValue \in UNION {[1..n -> SpaceChars] : n \in 0..MaxSpaceLen}
    /\ nMode \in {"preserve", "replace", "collapse"}
    /\ nOnce = <<>>
    /\ nTwice = <<>>
    /\ npc = "call"

\* result := NormalizeWhiteSpace(value, whiteSpace)
Normalize ==
    /\ npc = "call"
    /\ nOnce' = NormalizeWhiteSpace(nValue, nMode)
    /\ npc' = "once"
    /\ UNCHANGED <<nValue, nMode, nTwice, notNormalize>>

\* NormalizeWhiteSpace(result, whiteSpace)
NormalizeAgain ==
    /\ npc = "once"
    /\ nTwice' = NormalizeWhiteSpace(nOnce, nMode)
    /\ npc' = "twice"
    /\ UNCHANGED <<nValue, nMode, nOnce, notNormalize>>

NextNormalize == Normalize \/ NormalizeAgain

SpecNormalize == InitNormalize /\ [][NextNormalize]_vars

\* C24: whitespace normalisation is idempotent: normalising a normalised
\* value under the same mode (collapse, replace, and preserve as well)
\* gives the normalised value again.
C24_NormalizeIdempotent ==
    npc = "twice" => nTwice = nOnce

\* A value with a run of three white-space characters has been collapsed
\* twice, and the first collapse has changed it.
C24_RunCollapsedTwice ==
    /\ npc = "twice"
    /\ nMode = "collapse"
    /\ Len(nValue) = 3
    /\ \A i \in 1..3 : IsSpace(nValue[i])
    /\ nOnce # nValue

(***************************************************************************)
(* SpecTerminate: validateSequence as a step machine.  A frame is one      *)
(* active call: its group, the children it was handed, and its two         *)
(* cursors.  The branches for a *GroupRef and for a nested sequence call   *)
(* validateSequence on children[childIndex:] before they move a cursor;    *)
(* the call is a function of its group, its children and the schema, so a  *)
(* call entered while a call with the same group and children is active    *)
(* repeats it without end: Go ends the program with a stack overflow.      *)
(*                                                                         *)
(* The schemas are what Parse compiles (resolveReferences: the loop over   *)
(* TypeDefs, then the loop over Groups) from                               *)
(*   LeftRecursive   G = sequence(ref G, A),             T = sequence(ref G) *)
(*   RightRecursive  G = sequence(A, ref G minOccurs=0), T = sequence(ref G) *)
(*   DanglingRef     no group X,                     T = sequence(ref X, A) *)
(*   PlainRef        G = sequence(B),                T = sequence(A, ref G) *)
(* The resolver keeps a reference to a group it is expanding.              *)
(***************************************************************************)
LeftRecursive ==
    [Groups |-> ("G" :> ModelGroup("sequence",
                            <<NestedGroup("sequence",
                                          <<GroupRef("G", 1, 1), ElementRef("A", 1, 1)>>, 1, 1),
                              ElementRef("A", 1, 1)>>, 1, 1)),
     Content |-> ModelGroup("sequence",
                            <<NestedGroup("sequence",
                                          <<GroupRef("G", 1, 1), ElementRef("A", 1, 1)>>, 1, 1)>>,
                            1, 1)]

RightRecursive ==
    [Groups |-> ("G" :> ModelGroup("sequence",
                            <<ElementRef("A", 1, 1),
                              NestedGroup("sequence",
                                          <<ElementRef("A", 1, 1), GroupRef("G", 0, 1)>>, 0, 1)>>,
                            1, 1)),
     Content |-> ModelGroup("sequence",
                            <<NestedGroup("sequence",
                                          <<ElementRef("A", 1, 1), GroupRef("G", 0, 1)>>, 1, 1)>>,
                            1, 1)]

DanglingRef ==
    [Groups |-> <<>>,
     Content |-> ModelGroup("sequence", <<GroupRef("X", 1, 1), ElementRef("A", 1, 1)>>, 1, 1)]

PlainRef ==
    [Groups |-> ("G" :> ModelGroup("sequence", <<ElementRef("B", 1, 1)>>, 1, 1)),
     Content |-> ModelGroup("sequence",
                            <<ElementRef("A", 1, 1),
                              NestedGroup("sequence", <<ElementRef("B", 1, 1)>>, 1, 1)>>, 1, 1)]

QSchemas == {LeftRecursive, RightRecursive, DanglingRef, PlainRef}

QNames == {"A", "B"}

\* The *Schema the matcher reads.
QSchema == MatchSchema(qSchema.Content) @@ [Groups |-> qSchema.Groups]

\* One activation of validateSequence.
Activation(mg, children) ==
    [mg |-> mg, children |-> children, childIndex |-> 0, particleIndex |-> 0]

\* A call with this group and these children has not returned yet.
Active(mg, children) ==
    \E i \in 1..Len(qStack) : qStack[i].mg = mg /\ qStack[i].children = children

QTop == qStack[Len(qStack)]

\* for childIndex < len(children) && particleIndex < len(mg.Particles)
InMainLoop(f) ==
    f.childIndex < Len(f.children) /\ f.particleIndex < Len(f.mg.Particles)

QParticle == QTop.mg.Particles[QTop.particleIndex + 1]

QRest == Tail0(QTop.children, QTop.childIndex)

\* The stack with the cursors of its innermost call moved.
Moved(dChild, dParticle) ==
    [qStack EXCEPT ![Len(qStack)] =
        [@ EXCEPT !.childIndex = @ + dChild, !.particleIndex = @ + dParticle]]

\* validateSequence(children[childIndex:], schema) on group: a new
\* activation, or the overflow when the same call is already active.
Entered(group) ==
    IF Active(group, QRest)
    THEN /\ qpc' = "stackOverflow"
         /\ UNCHANGED qStack
    ELSE /\ qStack' = Append(qStack, Activation(group, QRest))
         /\ UNCHANGED qpc

InitTerminate ==
    /\ ResolveIdle
    /\ ValidateIdle
    /\ CompileIdle
    /\ LoaderIdle
    /\ CompatIdle
    /\ MatchIdle
    /\ FacetIdle
    /\ WildcardIdle
    /\ OccursIdle
    /\ NormalizeIdle
    /\ CacheIdle
    /\ qSchema \in QSchemas
    /\ qChildren \in UNION {[1..n -> QNames] : n \in 0..MaxChildren}
    /\ qStack = <<>>
    /\ qpc = "call"

\* ModelGroup.Validate on the root: violations = mg.validateSequence(...)
ValidateGroup ==
    /\ qpc = "call"
    /\ qStack' = <<Activation(qSchema.Content,
                              [i \in 1..Len(qChildren) |-> Leaf(qChildren[i])])>>
    /\ qpc' = "run"
    /\ UNCHANGED <<qSchema, qChildren, notTerminate>>

\* particle.(*GroupRef), the group exists:
\* resolvedGroup.validateSequence(children[childIndex:], schema)
EnterGroupRef ==
    /\ qpc = "run"
    /\ InMainLoop(QTop)
    /\ QParticle.t = "GroupRef"
    /\ QParticle.ref \in DOMAIN qSchema.Groups
    /\ qSchema.Groups[QParticle.ref].Kind = "sequence"
    /\ Entered(qSchema.Groups[QParticle.ref])
    /\ UNCHANGED <<qSchema, qChildren, notTerminate>>

\* particle.(*GroupRef), no such group: particleIndex++
SkipGroupRef ==
    /\ qpc = "run"
    /\ InMainLoop(QTop)
    /\ QParticle.t = "GroupRef"
    /\ QParticle.ref \notin DOMAIN qSchema.Groups
    /\ qStack' = Moved(0, 1)
    /\ UNCHANGED <<qSchema, qChildren, qpc, notTerminate>>

\* particle.(*ModelGroup), a sequence:
\* nestedGroup.validateSequence(children[childIndex:], schema)
EnterNestedGroup ==
    /\ qpc = "run"
    /\ InMainLoop(QTop)
    /\ QParticle.t = "ModelGroup"
    /\ QParticle.Kind = "sequence"
    /\ Entered(QParticle)
    /\ UNCHANGED <<qSchema, qChildren, notTerminate>>

\* The cursors after the regular branch, given what matchParticle consumed.
afterMatch(particle, consumed) ==
    IF consumed > 0 THEN Moved(consumed, 1)
    ELSE IF particle.MinOcc = 0 THEN Moved(0, 1)
    ELSE Moved(1, 0)

\* regular particle: matchParticle, then one of the cursors moves
MatchRegular ==
    /\ qpc = "run"
    /\ InMainLoop(QTop)
    /\ QParticle.t \in {"ElementRef", "ElementDecl"}
    /\ qStack' = afterMatch(QParticle, matchParticle(QParticle, QRest, QSchema).consumed)
    /\ UNCHANGED <<qSchema, qChildren, qpc, notTerminate>>

\* The innermost call leaves its main loop, runs its two closing loops and
\* returns to the branch that made it: consumed =
\* countConsumedByGroup(group, children[childIndex:], schema);
\* childIndex += consumed; particleIndex++
ReturnNested ==
    /\ qpc = "run"
    /\ Len(qStack) > 1
    /\ ~InMainLoop(QTop)
    /\ qStack' = [SubSeq(qStack, 1, Len(qStack) - 1) EXCEPT ![Len(qStack) - 1] =
                     [@ EXCEPT !.childIndex =
                                   @ + countConsumedByGroup(QTop.mg, QTop.children, QSchema),
                               !.particleIndex = @ + 1]]
    /\ UNCHANGED <<qSchema, qChildren, qpc, notTerminate>>

\* The outermost call returns: Validate has its violations.
ReturnValidate ==
    /\ qpc = "run"
    /\ Len(qStack) = 1
    /\ ~InMainLoop(QTop)
    /\ qStack' = <<>>
    /\ qpc' = "done"
    /\ UNCHANGED <<qSchema, qChildren, notTerminate>>

NextTerminate ==
    \/ ValidateGroup
    \/ EnterGroupRef
    \/ SkipGroupRef
    \/ EnterNestedGroup
    \/ MatchRegular
    \/ ReturnNested
    \/ ReturnValidate

SpecTerminate == InitTerminate /\ [][NextTerminate]_vars

\* C26: Validate terminates for every finite document and every compiled
\* schema, group references left unresolved at cycle positions included: no
\* call of validateSequence is entered while the same call is still active.
C26_ValidateTerminates == qpc # "stackOverflow"

\* The loop part of the claim: a step of the main loop that opens no call
\* and returns from none moves the child cursor or the particle cursor on.
C26_CursorAdvances ==
    [][(qpc = "run" /\ qpc' = "run" /\ Len(qStack') = Len(qStack))
          => (qStack'[Len(qStack)].childIndex + qStack'[Len(qStack)].particleIndex
                 > QTop.childIndex + QTop.particleIndex)]_vars

\* The schemas whose remaining references do not stand first in their group
\* are validated to the end.
C26_RightRecursiveReturns ==
    qSchema \in {RightRecursive, DanglingRef, PlainRef} => qpc # "stackOverflow"

(***************************************************************************)
(* SpecCache: SchemaCache.Get.  A step is what a goroutine does between    *)
(* two synchronisation points: the read of sc.schemas under RLock, the     *)
(* write under Lock, entry.once.Do, and the steps of loadSchema.  A        *)
(* sync.Once is "idle", "running" while a goroutine is inside Do (Do       *)
(* holds the Once's mutex while f runs, so every other Do on it waits,     *)
(* one made by the goroutine that runs f included), then "done".           *)
(* /A imports /B and /B imports /A; /C imports nothing.                    *)
(***************************************************************************)
Goroutines == {1, 2}

CacheImports == [p \in {"/A", "/B", "/C"} |->
                    IF p = "/A" THEN <<"/B">> ELSE IF p = "/B" THEN <<"/A">> ELSE <<>>]

CacheRequests == {"/A", "/C"}

\* A call of Get: pc is "lookup", "store", "once" or "return".
GetFrame(path) == [fn |-> "Get", path |-> path, pc |-> "lookup", entry |-> 0]

\* A call of loadSchema after Parse: the imports not yet visited.
LoadSchemaFrame(path, schema) ==
    [fn |-> "loadSchema", path |-> path, schema |-> schema, todo |-> CacheImports[path]]

\* &schemaEntry{loader: ...}
NewEntry == [once |-> "idle", schema |-> 0]

ScTop(g) == scStacks[g][Len(scStacks[g])]

\* The stack of g with its innermost frame replaced.
WithTop(g, frame) == [scStacks EXCEPT ![g] = [@ EXCEPT ![Len(@)] = frame]]

InitCache ==
    /\ ResolveIdle
    /\ ValidateIdle
    /\ CompileIdle
    /\ LoaderIdle
    /\ CompatIdle
    /\ MatchIdle
    /\ FacetIdle
    /\ WildcardIdle
    /\ OccursIdle
    /\ NormalizeIdle
    /\ TerminateIdle
    /\ scSchemas = <<>>
    /\ scEntries = <<>>
    /\ scParsed = <<>>
    /\ scReq \in [Goroutines -> CacheRequests]
    /\ scStacks = [g \in Goroutines |-> <<GetFrame(scReq[g])>>]
    /\ scResult = [g \in Goroutines |-> [returned |-> FALSE, schema |-> 0]]

\* sc.mu.RLock(); entry, exists := sc.schemas[resolvedPath]; sc.mu.RUnlock()
Lookup(g) ==
    /\ scStacks[g] # <<>>
    /\ ScTop(g).fn = "Get"
    /\ ScTop(g).pc = "lookup"
    /\ scStacks' = WithTop(g, IF ScTop(g).path \in DOMAIN scSchemas
                              THEN [ScTop(g) EXCEPT !.pc = "once",
                                                    !.entry = scSchemas[ScTop(g).path]]
                              ELSE [ScTop(g) EXCEPT !.pc = "store"])
    /\ UNCHANGED <<scSchemas, scEntries, scParsed, scReq, scResult, notCache>>

\* entry = &schemaEntry{...}; sc.mu.Lock(); sc.schemas[resolvedPath] = entry
Store(g) ==
    /\ scStacks[g] # <<>>
    /\ ScTop(g).fn = "Get"
    /\ ScTop(g).pc = "store"
    /\ scEntries' = Append(scEntries, NewEntry)
    /\ scSchemas' = [p \in DOMAIN scSchemas \cup {ScTop(g).path} |->
                        IF p = ScTop(g).path THEN Len(scEntries) + 1 ELSE scSchemas[p]]
    /\ scStacks' = WithTop(g, [ScTop(g) EXCEPT !.pc = "once", !.entry = Len(scEntries) + 1])
    /\ UNCHANGED <<scParsed, scReq, scResult, notCache>>

\* entry.once.Do(f), the Once not yet used: f runs entry.loader(), that is
\* loadSchema: ReadFile, Decode, Parse.
OnceRun(g) ==
    /\ scStacks[g] # <<>>
    /\ ScTop(g).fn = "Get"
    /\ ScTop(g).pc = "once"
    /\ scEntries[ScTop(g).entry].once = "idle"
    /\ scEntries' = [scEntries EXCEPT ![ScTop(g).entry].once = "running"]
    /\ scParsed' = Append(scParsed, ScTop(g).path)
    /\ scStacks' = [scStacks EXCEPT ![g] =
                       Append(@, LoadSchemaFrame(ScTop(g).path, Len(scParsed) + 1))]
    /\ UNCHANGED <<scSchemas, scReq, scResult, notCache>>

\* entry.once.Do(f), the Once done: Do returns at once.
OncePassed(g) ==
    /\ scStacks[g] # <<>>
    /\ ScTop(g).fn = "Get"
    /\ ScTop(g).pc = "once"
    /\ scEntries[ScTop(g).entry].once = "done"
    /\ scStacks' = WithTop(g, [ScTop(g) EXCEPT !.pc = "return"])
    /\ UNCHANGED <<scSchemas, scEntries, scParsed, scReq, scResult, notCache>>

\* for _, imp := range schema.Imports: sc.Get(importPath)
GetImport(g) ==
    /\ scStacks[g] # <<>>
    /\ ScTop(g).fn = "loadSchema"
    /\ ScTop(g).todo # <<>>
    /\ scStacks' = [scStacks EXCEPT ![g] =
                       Append([@ EXCEPT ![Len(@)].todo = Tail(@)],
                              GetFrame(Head(ScTop(g).todo)))]
    /\ UNCHANGED <<scSchemas, scEntries, scParsed, scReq, scResult, notCache>>

\* loadSchema returns the schema: entry.schema, entry.err = ...; Do marks
\* the Once done and releases it.
LoaderReturns(g) ==
    /\ scStacks[g] # <<>>
    /\ ScTop(g).fn = "loadSchema"
    /\ ScTop(g).todo = <<>>
    /\ scEntries' = [scEntries EXCEPT ![scStacks[g][Len(scStacks[g]) - 1].entry] =
                        [once |-> "done", schema |-> ScTop(g).schema]]
    /\ scStacks' = [scStacks EXCEPT ![g] =
                       [SubSeq(@, 1, Len(@) - 1) EXCEPT ![Len(@) - 1].pc = "return"]]
    /\ UNCHANGED <<scSchemas, scParsed, scReq, scResult, notCache>>

\* return entry.schema, entry.err: to loadSchema, which drops the value, or
\* to the caller of the goroutine's own Get.
GetReturns(g) ==
    /\ scStacks[g] # <<>>
    /\ ScTop(g).fn = "Get"
    /\ ScTop(g).pc = "return"
    /\ scStacks' = [scStacks EXCEPT ![g] = SubSeq(@, 1, Len(@) - 1)]
    /\ scResult' = IF Len(scStacks[g]) = 1
                   THEN [scResult EXCEPT ![g] =
                            [returned |-> TRUE, schema |-> scEntries[ScTop(g).entry].schema]]
                   ELSE scResult
    /\ UNCHANGED <<scSchemas, scEntries, scParsed, scReq, notCache>>

NextCache ==
    \E g \in Goroutines :
       \/ Lookup(g)
       \/ Store(g)
       \/ OnceRun(g)
       \/ OncePassed(g)
       \/ GetImport(g)
       \/ LoaderReturns(g)
       \/ GetReturns(g)

SpecCache == InitCache /\ [][NextCache]_vars

\* How often the file at path has been loaded and parsed.
TimesParsed(path) == Cardinality({i \in 1..Len(scParsed) : scParsed[i] = path})

\* C27: when the concurrent Get calls with one location have returned, the
\* schema has been loaded and parsed exactly once and every caller has
\* received the same *Schema.
C27_LoadedOnce ==
    (/\ \A g \in Goroutines : scResult[g].returned
     /\ \A g, h \in Goroutines : scReq[g] = scReq[h])
        => /\ \A g \in Goroutines : TimesParsed(scReq[g]) = 1
           /\ \A g, h \in Goroutines : scResult[g].schema = scResult[h].schema

\* The same for the callers that found the other's entry in the map.
C27_OnSharedEntry ==
    \A g, h \in Goroutines :
       (/\ scResult[g].returned /\ scResult[h].returned
        /\ scReq[g] = scReq[h]
        /\ Len(scEntries) = 1)
           => scResult[g].schema = scResult[h].schema /\ TimesParsed(scReq[g]) = 1

\* The goroutine waits in once.Do for a Once that one of its own enclosing
\* calls holds: the Once is released only when that call's loader returns,
\* which needs this Do to return first.
WaitsOnItself(g) ==
    /\ scStacks[g] # <<>>
    /\ ScTop(g).fn = "Get"
    /\ ScTop(g).pc = "once"
    /\ scEntries[ScTop(g).entry].once = "running"
    /\ \E i \in 1..(Len(scStacks[g]) - 1) :
          /\ scStacks[g][i].fn = "Get"
          /\ scStacks[g][i].entry = ScTop(g).entry

\* C28: Get returns for every finite set of schema files, import cycles
\* included: the Get issued for a file while that file's own load is running
\* never waits on the load's sync.Once.
C28_GetReturns == \A g \in Goroutines : ~WaitsOnItself(g)

\* The same for the files whose imports form no cycle.
C28_AcyclicReturns ==
    \A g \in Goroutines : scReq[g] = "/C" => ~WaitsOnItself(g)

(***************************************************************************)
(* Compilation: Parse, then the loops of resolveReferences that resolve    *)
(* extensions and build the substitution-group index.  The components of   *)
(* a schema are the objects its maps point to; a named type is one object, *)
(* so a step on TypeDefs[T] is seen by every later step.                   *)
(***************************************************************************)
\* A extends nothing; B extends A; C extends B; each adds one attribute and
\* one element.
ChainTypeDefs ==
    ("A" :> ComplexType("A", <<AttributeDecl("x", "optional")>>,
               ModelGroup("sequence", <<ElementDecl("a", "string", 1, 1)>>, 1, 1)))
    @@ ("B" :> ComplexType("B", <<>>,
               ComplexContent("A", <<AttributeDecl("y", "optional")>>,
                   ModelGroup("sequence", <<ElementDecl("b", "string", 1, 1)>>, 1, 1))))
    @@ ("C" :> ComplexType("C", <<>>,
               ComplexContent("B", <<AttributeDecl("z", "optional")>>,
                   ModelGroup("sequence", <<ElementDecl("c", "string", 1, 1)>>, 1, 1))))

ChainParsed ==
    [TypeDefs |-> ChainTypeDefs,
     ElementDecls |-> ("root" :> GlobalElement("root", "C", "", FALSE, {}))]

FleetParsed == [TypeDefs |-> FleetParsedTypeDefs, ElementDecls |-> FleetElementDecls]

CatalogParsed == [TypeDefs |-> CatalogTypeDefs, ElementDecls |-> CatalogElementDecls]

CompileDocs == {ChainParsed, FleetParsed, CatalogParsed}

MaxCompiles == 2

\* resolveReferences 631-637 and resolveTypesInComplexType 1899-1906: a
\* complex type whose content is a ComplexContent extension is resolved.
resolveTypesInComplexType(T) ==
    IF TypeDefs[T].t = "ComplexType" /\ TypeDefs[T].Content.Kind = "complexContent"
    THEN [TypeDefs EXCEPT ![T] = resolveExtension(@, TypeDefs)]
    ELSE TypeDefs

\* Parse: the maps as the parse functions fill them, then resolveReferences.
Parse ==
    /\ cpc = "Parse"
    /\ TypeDefs' = cdoc.TypeDefs
    /\ SubstitutionGroups' = <<>>
    /\ cpc' = "TypeDefs"
    /\ ctodo' = DOMAIN cdoc.TypeDefs
    /\ UNCHANGED <<cdoc, compiled, notCompile>>

\* for _, typeDef := range s.TypeDefs
CompileTypeDefs ==
    /\ cpc = "TypeDefs"
    /\ \/ \E T \in ctodo :
            /\ TypeDefs' = resolveTypesInComplexType(T)
            /\ ctodo' = ctodo \ {T}
            /\ UNCHANGED <<cdoc, SubstitutionGroups, cpc, compiled, notCompile>>
       \/ /\ ctodo = {}
          /\ cpc' = "ElementDecls"
          /\ ctodo' = DOMAIN cdoc.ElementDecls
          /\ UNCHANGED <<cdoc, TypeDefs, SubstitutionGroups, compiled, notCompile>>

\* for _, elemDecl := range s.ElementDecls: resolveTypesInComplexType
CompileElementDecls ==
    /\ cpc = "ElementDecls"
    /\ \/ \E e \in ctodo :
            /\ TypeDefs' = IF cdoc.ElementDecls[e].Type # ""
                           THEN resolveTypesInComplexType(cdoc.ElementDecls[e].Type)
                           ELSE TypeDefs
            /\ ctodo' = ctodo \ {e}
            /\ UNCHANGED <<cdoc, SubstitutionGroups, cpc, compiled, notCompile>>
       \/ /\ ctodo = {}
          /\ cpc' = "buildSubstitutionGroups"
          /\ ctodo' = DOMAIN cdoc.ElementDecls
          /\ UNCHANGED <<cdoc, TypeDefs, SubstitutionGroups, compiled, notCompile>>

\* s.SubstitutionGroups[head] = append(s.SubstitutionGroups[head], member)
AppendMember(sg, head, member) ==
    IF head \in DOMAIN sg THEN [sg EXCEPT ![head] = Append(@, member)]
    ELSE sg @@ (head :> <<member>>)

\* buildSubstitutionGroups: for name, decl := range s.ElementDecls; when
\* the loop ends Parse returns the schema.
buildSubstitutionGroups ==
    /\ cpc = "buildSubstitutionGroups"
    /\ \/ \E e \in ctodo :
            /\ SubstitutionGroups' =
                  IF cdoc.ElementDecls[e].SubstitutionGroup # ""
                  THEN AppendMember(SubstitutionGroups,
                                    cdoc.ElementDecls[e].SubstitutionGroup, e)
                  ELSE SubstitutionGroups
            /\ ctodo' = ctodo \ {e}
            /\ UNCHANGED <<cdoc, TypeDefs, cpc, compiled, notCompile>>
       \/ /\ ctodo = {}
          /\ compiled' = Append(compiled, [ElementDecls |-> cdoc.ElementDecls,
                                           TypeDefs |-> TypeDefs,
                                           SubstitutionGroups |-> SubstitutionGroups])
          /\ cpc' = IF Len(compiled) + 1 < MaxCompiles THEN "Parse" ELSE "done"
          /\ UNCHANGED <<cdoc, TypeDefs, SubstitutionGroups, ctodo, notCompile>>

InitCompile ==
    /\ ResolveIdle
    /\ ValidateIdle
    /\ LoaderIdle
    /\ CompatIdle
    /\ MatchIdle
    /\ FacetIdle
    /\ WildcardIdle
    /\ OccursIdle
    /\ NormalizeIdle
    /\ TerminateIdle
    /\ CacheIdle
    /\ cdoc \in CompileDocs
    /\ TypeDefs = <<>>
    /\ SubstitutionGroups = <<>>
    /\ cpc = "Parse"
    /\ ctodo = {}
    /\ compiled = <<>>

NextCompile ==
    \/ Parse
    \/ CompileTypeDefs
    \/ CompileElementDecls
    \/ buildSubstitutionGroups

SpecCompile == InitCompile /\ [][NextCompile]_vars

\* C5: the Schemas that Parse returns for one document are structurally
\* equal, whatever order the maps were iterated in.
C5_CompileDeterministic ==
    \A i, j \in 1..Len(compiled) : compiled[i] = compiled[j]

\* C17: for C extends B extends A, the compiled type C carries the
\* attributes of A, then B, then C, and a sequence of A's particles, then
\* B's, then C's, whatever order resolveReferences visits the types in.
C17_ExtensionChainMerged ==
    \A i \in 1..Len(compiled) :
        "C" \in DOMAIN compiled[i].TypeDefs /\ cdoc = ChainParsed =>
            LET C == compiled[i].TypeDefs["C"] IN
            /\ [k \in 1..Len(C.Attributes) |-> C.Attributes[k].Name] = <<"x", "y", "z">>
            /\ IsModelGroup(C.Content)
            /\ [k \in 1..Len(C.Content.Particles) |-> C.Content.Particles[k].ref]
                   = <<"a", "b", "c">>

\* ------------------------------------------------------------------------
\* The loader: LoadSchemaWithImports and loadSchemaRecursive.
\* ------------------------------------------------------------------------

\* The documents the schema loader can reach, by absolute location.  Type
\* and element names are QNames written prefix:local.  Content "sequence"
\* is a type whose content is a ModelGroup.
\*   /A and /B import each other; /A declares a member of /B's head b:h.
\*   /C and /D (one namespace) include each other; /C then includes /H,
\*   which defines c:typeD as /D does.
\*   /E imports a location that does not exist, then /D, and includes /G;
\*   /F includes a location that does not exist; /I imports /F.
\* No document declares two members of one head, so the bucket Parse builds
\* for a document does not depend on the order of its ElementDecls map.
Files ==
    ("/A" :> [TargetNamespace |-> "a", Imports |-> <<"/B">>, Includes |-> <<>>,
              TypeDefs |-> ("a:typeA" :> "sequence"),
              ElementDecls |-> ("a:ma" :> "b:h")]) @@
    ("/B" :> [TargetNamespace |-> "b", Imports |-> <<"/A">>, Includes |-> <<>>,
              TypeDefs |-> ("b:typeB" :> "sequence"),
              ElementDecls |-> ("b:h" :> "") @@ ("b:mb" :> "b:h")]) @@
    ("/C" :> [TargetNamespace |-> "c", Imports |-> <<>>, Includes |-> <<"/D", "/H">>,
              TypeDefs |-> ("c:typeC" :> "sequence"),
              ElementDecls |-> ("c:root" :> "")]) @@
    ("/D" :> [TargetNamespace |-> "c", Imports |-> <<>>, Includes |-> <<"/C">>,
              TypeDefs |-> ("c:typeD" :> "empty"),
              ElementDecls |-> <<>>]) @@
    ("/E" :> [TargetNamespace |-> "e", Imports |-> <<"/missing", "/D">>,
              Includes |-> <<"/G">>,
              TypeDefs |-> ("e:typeE" :> "sequence"),
              ElementDecls |-> <<>>]) @@
    ("/H" :> [TargetNamespace |-> "c", Imports |-> <<>>, Includes |-> <<>>,
              TypeDefs |-> ("c:typeD" :> "empty"),
              ElementDecls |-> <<>>]) @@
    ("/G" :> [TargetNamespace |-> "e", Imports |-> <<>>, Includes |-> <<>>,
              TypeDefs |-> ("e:typeG" :> "empty"),
              ElementDecls |-> <<>>]) @@
    ("/F" :> [TargetNamespace |-> "f", Imports |-> <<>>, Includes |-> <<"/missing">>,
              TypeDefs |-> ("f:typeF" :> "sequence"),
              ElementDecls |-> <<>>]) @@
    ("/I" :> [TargetNamespace |-> "i", Imports |-> <<"/F">>, Includes |-> <<>>,
              TypeDefs |-> ("i:typeI" :> "sequence"),
              ElementDecls |-> <<>>])

\* The locations LoadSchemaWithImports is called with.
Requests == {"/A", "/C", "/E", "/F", "/I"}

\* The number of LoadSchemaWithImports calls made on the loader.
MaxLoads == 2

\* filepath.IsAbs(location): every location of Files is absolute, and an
\* absolute location is returned as it is.
resolveLocation(location) == location

\* An absolute schemaLocation is returned as it is, whatever the base.
resolveRelative(location, base) == location

\* A component (a *ComplexType, an *ElementDecl) is the object Parse made
\* for a name of a document; two maps holding the same component share it.
Component(origin, name) == <<origin, name>>

\* The bucket map Parse builds for one document (buildSubstitutionGroups on
\* the document's own ElementDecls, no imported schemas yet).
ownSubstitutionGroups(decls) ==
    LET heads == {decls[n] : n \in DOMAIN decls} \ {""}
    IN  [h \in heads |-> <<CHOOSE n \in DOMAIN decls : decls[n] = h>>]

\* Parse(doc) for the document at abs.
ParseDocument(abs) ==
    LET f == Files[abs]
    IN  [TargetNamespace |-> f.TargetNamespace,
         ElementDecls |-> [n \in DOMAIN f.ElementDecls |->
                              [self |-> Component(abs, n),
                               SubstitutionGroup |-> f.ElementDecls[n]]],
         TypeDefs |-> [n \in DOMAIN f.TypeDefs |->
                          [self |-> Component(abs, n), Content |-> f.TypeDefs[n]]],
         SubstitutionGroups |-> ownSubstitutionGroups(f.ElementDecls),
         ImportedSchemas |-> <<>>,
         Imports |-> f.Imports,
         Includes |-> f.Includes]

\* A loader that does not keep the parsed schema in sl.loaded.
StoreNothing(ld, abs, schema) == ld

\* sl.loaded[absLocation] = schema
StoreLoaded(ld, abs, schema) == (abs :> schema) @@ ld

\* for each key of source not in target: target[key] = source[key]
mergeMap(target, source) == target @@ source

RECURSIVE appendMissing(_, _)
\* The members appended to existing unless slices.Contains finds them.
appendMissing(existing, members) ==
    IF members = <<>> THEN existing
    ELSE appendMissing(IF Head(members) \in Range(existing) THEN existing
                       ELSE Append(existing, Head(members)),
                       Tail(members))

\* The bucket of head in a SubstitutionGroups map (nil when absent).
Bucket(sg, head) == IF head \in DOMAIN sg THEN sg[head] ELSE <<>>

\* The substitution groups of source merged into those of target.
mergeSubstitutionGroups(target, source) ==
    [h \in DOMAIN target \cup DOMAIN source |->
        IF h \in DOMAIN source THEN appendMissing(Bucket(target, h), source[h])
        ELSE target[h]]

\* The imports of source appended to those of target unless already there.
mergeImports(target, source) == appendMissing(target, source)

mergeComponents(source, target) ==
    [target EXCEPT
        !.ElementDecls = mergeMap(target.ElementDecls, source.ElementDecls),
        !.TypeDefs = mergeMap(target.TypeDefs, source.TypeDefs),
        !.SubstitutionGroups =
            mergeSubstitutionGroups(target.SubstitutionGroups, source.SubstitutionGroups),
        !.Imports = mergeImports(target.Imports, source.Imports)]

mergeWithNamespace(source, target) == mergeComponents(source, target)

\* sl.mergeSchema(source, location) as the new value of sl.combined.
mergeSchema(comb, source, location) ==
    LET c == [comb EXCEPT !.ImportedSchemas = (location :> source) @@ @]
    IN  IF source.TargetNamespace = c.TargetNamespace
        THEN mergeComponents(source, c)
        ELSE mergeWithNamespace(source, c)

\* One call of loadSchemaRecursive: the resolved location, the schema it
\* will return, where it stands (phase, i), the error it returns, whether
\* its deferred delete(sl.loading, absLocation) is registered, and what the
\* two maps said about the location when the call was made.
LoadFrame(abs, schema, phase, err, deferred, inProgress, cached) ==
    [loc |-> abs, schema |-> schema, phase |-> phase, i |-> 1, err |-> err,
     deferred |-> deferred, inProgress |-> inProgress, cached |-> cached]

\* loadSchemaRecursive(location) from its first line to the store of the
\* parsed schema, called with the frames below it on the stack.
Call(location, below) ==
    LET abs == resolveLocation(location)
        inProgress == abs \in loading
    IN  IF abs \in DOMAIN loaded
        THEN /\ lstack' = Append(below, LoadFrame(abs, loaded[abs], "return", "",
                                                  FALSE, inProgress, TRUE))
             /\ UNCHANGED <<loaded, loading>>
        ELSE IF abs \in loading
        THEN /\ lstack' = Append(below, LoadFrame(abs, EmptySchema, "return",
                                                  "circular dependency detected",
                                                  FALSE, inProgress, FALSE))
             /\ UNCHANGED <<loaded, loading>>
        ELSE IF abs \notin DOMAIN Files
        THEN /\ lstack' = Append(below, LoadFrame(abs, EmptySchema, "return",
                                                  "failed to load schema",
                                                  TRUE, inProgress, FALSE))
             /\ loading' = loading \cup {abs}
             /\ UNCHANGED loaded
        ELSE /\ lstack' = Append(below, LoadFrame(abs, ParseDocument(abs), "imports", "",
                                                  TRUE, inProgress, FALSE))
             /\ loading' = loading \cup {abs}
             /\ loaded' = StoreLoaded(loaded, abs, ParseDocument(abs))

LTop == lstack[Len(lstack)]

LBelow == SubSeq(lstack, 1, Len(lstack) - 1)

\* The caller's frame moved to its next import or include.
Step(f) == [f EXCEPT !.i = @ + 1]

\* LoadSchemaWithImports(location) up to its call of loadSchemaRecursive.
LoadSchemaWithImports(location) ==
    /\ lpc = "idle"
    /\ lcalls < MaxLoads
    /\ lcalls' = lcalls + 1
    /\ lreq' = location
    /\ combined' = EmptySchema
    /\ lpc' = "loading"
    /\ Call(location, <<>>)
    /\ UNCHANGED <<ltodo, lret, logged, lresult, published, dirty, notLoader>>

\* for _, imp := range schema.Imports: the next import is requested.
NextImport ==
    /\ lpc = "loading"
    /\ LTop.phase = "imports"
    /\ LTop.i <= Len(LTop.schema.Imports)
    /\ Call(resolveRelative(LTop.schema.Imports[LTop.i], LTop.loc), lstack)
    /\ UNCHANGED <<combined, lpc, ltodo, lreq, lret, logged, lresult, published, dirty,
                   lcalls, notLoader>>

ImportsDone ==
    /\ lpc = "loading"
    /\ LTop.phase = "imports"
    /\ LTop.i > Len(LTop.schema.Imports)
    /\ lstack' = Append(LBelow, [LTop EXCEPT !.phase = "includes", !.i = 1])
    /\ UNCHANGED <<loaded, loading, combined, lpc, ltodo, lreq, lret, logged, lresult,
                   published, dirty, lcalls, notLoader>>

\* for _, includeLocation := range includes: the next include is requested.
NextInclude ==
    /\ lpc = "loading"
    /\ LTop.phase = "includes"
    /\ LTop.i <= Len(LTop.schema.Includes)
    /\ Call(resolveRelative(LTop.schema.Includes[LTop.i], LTop.loc), lstack)
    /\ UNCHANGED <<combined, lpc, ltodo, lreq, lret, logged, lresult, published, dirty,
                   lcalls, notLoader>>

\* return schema, nil
IncludesDone ==
    /\ lpc = "loading"
    /\ LTop.phase = "includes"
    /\ LTop.i > Len(LTop.schema.Includes)
    /\ lstack' = Append(LBelow, [LTop EXCEPT !.phase = "return"])
    /\ UNCHANGED <<loaded, loading, combined, lpc, ltodo, lreq, lret, logged, lresult,
                   published, dirty, lcalls, notLoader>>

\* What a returning call leaves behind: its deferred delete has run and
\* its result is the last one returned.
Returned ==
    /\ loading' = IF LTop.deferred THEN loading \ {LTop.loc} ELSE loading
    /\ lret' = [loc |-> LTop.loc, err |-> LTop.err, inProgress |-> LTop.inProgress,
                cached |-> LTop.cached]

\* An import whose error ends the importing call, as an include's does.
importFatal(err, caller) ==
    IF err # "" THEN [caller EXCEPT !.phase = "return", !.err = "failed to import"]
    ELSE Step(caller)

\* The importing call after the call for one of its imports has returned:
\* whatever the error, the loop goes on with the next import.
afterImport(err, caller) == Step(caller)

\* A call made by the imports loop returns: an error is logged and skipped.
ReturnToImports ==
    /\ lpc = "loading"
    /\ Len(lstack) > 1
    /\ LTop.phase = "return"
    /\ lstack[Len(lstack) - 1].phase = "imports"
    /\ Returned
    /\ logged' = IF LTop.err # "" THEN logged \cup {LTop.err} ELSE logged
    /\ lstack' = Append(SubSeq(lstack, 1, Len(lstack) - 2),
                        afterImport(LTop.err, lstack[Len(lstack) - 1]))
    /\ UNCHANGED <<loaded, combined, lpc, ltodo, lreq, lresult, published, dirty, lcalls,
                   notLoader>>

\* A call made by the includes loop returns: an error ends the caller.
ReturnToIncludes ==
    /\ lpc = "loading"
    /\ Len(lstack) > 1
    /\ LTop.phase = "return"
    /\ lstack[Len(lstack) - 1].phase = "includes"
    /\ Returned
    /\ lstack' = Append(SubSeq(lstack, 1, Len(lstack) - 2),
                        IF LTop.err # ""
                        THEN [lstack[Len(lstack) - 1] EXCEPT !.phase = "return",
                                                             !.err = "failed to include"]
                        ELSE Step(lstack[Len(lstack) - 1]))
    /\ UNCHANGED <<loaded, combined, lpc, ltodo, lreq, logged, lresult, published, dirty,
                   lcalls, notLoader>>

\* The call made by LoadSchemaWithImports returns: an error is returned to
\* the caller of the loader, otherwise the main schema is merged.
ReturnToLoad ==
    /\ lpc = "loading"
    /\ Len(lstack) = 1
    /\ LTop.phase = "return"
    /\ Returned
    /\ lstack' = <<>>
    /\ IF LTop.err # ""
       THEN /\ lresult' = [err |-> LTop.err, schema |-> EmptySchema]
            /\ lpc' = "idle"
            /\ UNCHANGED <<combined, ltodo>>
       ELSE /\ combined' = mergeSchema([combined EXCEPT
                                           !.TargetNamespace = LTop.schema.TargetNamespace],
                                       LTop.schema, lreq)
            /\ lpc' = "mergeLoaded"
            /\ ltodo' = DOMAIN loaded
            /\ UNCHANGED lresult
    /\ UNCHANGED <<loaded, lreq, logged, published, dirty, lcalls, notLoader>>

\* for loc, schema := range sl.loaded: one more loaded document is merged,
\* in the order the map yields them.
MergeLoaded ==
    /\ lpc = "mergeLoaded"
    /\ \E loc \in ltodo :
          /\ combined' = mergeSchema(combined, loaded[loc], loc)
          /\ ltodo' = ltodo \ {loc}
    /\ UNCHANGED <<loaded, loading, lstack, lpc, lreq, lret, logged, lresult, published,
                   dirty, lcalls, notLoader>>

\* The components of a schema: its types and elements, and those of the
\* schemas in its ImportedSchemas.
OwnComponents(schema) ==
    {schema.TypeDefs[n].self : n \in DOMAIN schema.TypeDefs}
        \cup {schema.ElementDecls[n].self : n \in DOMAIN schema.ElementDecls}

ReachableComponents(schema) ==
    OwnComponents(schema)
        \cup UNION {OwnComponents(schema.ImportedSchemas[k]) :
                        k \in DOMAIN schema.ImportedSchemas}

\* The components resolveReferences assigns to: mg.Particles of every
\* complex type whose content is a ModelGroup.
WrittenByResolve(schema) ==
    {schema.TypeDefs[n].self : n \in {m \in DOMAIN schema.TypeDefs :
                                          schema.TypeDefs[m].Content = "sequence"}}

\* sl.combined.resolveReferences() up to buildSubstitutionGroups.
resolveCombined ==
    /\ lpc = "mergeLoaded"
    /\ ltodo = {}
    /\ dirty' = dirty \cup (published \cap WrittenByResolve(combined))
    /\ lpc' = "buildElements"
    /\ ltodo' = DOMAIN combined.ElementDecls
    /\ UNCHANGED <<loaded, loading, combined, lstack, lreq, lret, logged, lresult,
                   published, lcalls, notLoader>>

\* buildSubstitutionGroups on the combined schema, first loop: one more
\* element declaration, in the order the map yields them.
BuildFromElementDecls ==
    /\ lpc = "buildElements"
    /\ \E name \in ltodo :
          LET head == combined.ElementDecls[name].SubstitutionGroup
          IN  /\ combined' =
                    IF head = "" THEN combined
                    ELSE [combined EXCEPT !.SubstitutionGroups =
                             (head :> Append(Bucket(@, head), name)) @@ @]
              /\ ltodo' = ltodo \ {name}
    /\ UNCHANGED <<loaded, loading, lstack, lpc, lreq, lret, logged, lresult, published,
                   dirty, lcalls, notLoader>>

BuildElementsDone ==
    /\ lpc = "buildElements"
    /\ ltodo = {}
    /\ lpc' = "buildImported"
    /\ ltodo' = DOMAIN combined.ImportedSchemas
    /\ UNCHANGED <<loaded, loading, combined, lstack, lreq, lret, logged, lresult,
                   published, dirty, lcalls, notLoader>>

\* The buckets of an imported schema appended to those of sg.
appendImported(sg, imported) ==
    [h \in DOMAIN sg \cup DOMAIN imported |->
        IF h \in DOMAIN imported THEN Bucket(sg, h) \o imported[h] ELSE sg[h]]

\* Second loop: one more imported schema, in the order the map yields them.
BuildFromImportedSchemas ==
    /\ lpc = "buildImported"
    /\ \E key \in ltodo :
          /\ combined' = [combined EXCEPT !.SubstitutionGroups =
                             appendImported(@, combined.ImportedSchemas[key].SubstitutionGroups)]
          /\ ltodo' = ltodo \ {key}
    /\ UNCHANGED <<loaded, loading, lstack, lpc, lreq, lret, logged, lresult, published,
                   dirty, lcalls, notLoader>>

\* return sl.combined, nil
ReturnCombined ==
    /\ lpc = "buildImported"
    /\ ltodo = {}
    /\ lresult' = [err |-> "", schema |-> combined]
    /\ published' = published \cup ReachableComponents(combined)
    /\ lpc' = "idle"
    /\ UNCHANGED <<loaded, loading, combined, lstack, ltodo, lreq, lret, logged, dirty,
                   lcalls, notLoader>>

InitLoader ==
    /\ ResolveIdle
    /\ ValidateIdle
    /\ CompileIdle
    /\ LoaderIdle
    /\ CompatIdle
    /\ MatchIdle
    /\ WildcardIdle
    /\ OccursIdle
    /\ NormalizeIdle
    /\ TerminateIdle
    /\ CacheIdle
    /\ FacetIdle

NextLoader ==
    \/ \E location \in Requests : LoadSchemaWithImports(location)
    \/ NextImport
    \/ ImportsDone
    \/ NextInclude
    \/ IncludesDone
    \/ ReturnToImports
    \/ ReturnToIncludes
    \/ ReturnToLoad
    \/ MergeLoaded
    \/ resolveCombined
    \/ BuildFromElementDecls
    \/ BuildElementsDone
    \/ BuildFromImportedSchemas
    \/ ReturnCombined

SpecLoader == InitLoader /\ [][NextLoader]_vars

\* C6: a request to load a location whose own load has started and has not
\* finished returns the error 'circular dependency detected' instead of a
\* schema.
C6_InProgressIsCircularError ==
    lret.inProgress => lret.err = "circular dependency detected"

\* The last LoadSchemaWithImports call was for location and has returned.
LoadReturned(location) == lpc = "idle" /\ lcalls >= 1 /\ lreq = location

\* C7: loading /A, which imports /B, which imports /A, is not an error:
\* LoadSchemaWithImports returns, and the combined schema it returns holds
\* the type definitions of both documents.
C7_CircularImportLoads ==
    LoadReturned("/A") =>
        /\ lresult.err = ""
        /\ {"a:typeA", "b:typeB"} \subseteq DOMAIN lresult.schema.TypeDefs

\* The first call on a loader, for /A, has returned, and while it ran /B
\* had asked for /A.
C7_CircularImportLoaded ==
    /\ LoadReturned("/A")
    /\ lcalls = 1
    /\ "/B" \in DOMAIN loaded
    /\ "b:typeB" \in DOMAIN lresult.schema.TypeDefs

\* C15: a load error in a document reached through xs:import is logged and
\* not returned: loading /E, whose first import does not exist, returns a
\* combined schema with no error, and the later import /D and the include
\* /G of /E have been processed.
C15_ImportErrorLogged ==
    LoadReturned("/E") =>
        /\ lresult.err = ""
        /\ "failed to load schema" \in logged
        /\ {"e:typeE", "c:typeD", "e:typeG"} \subseteq DOMAIN lresult.schema.TypeDefs

\* The first call on a loader, for /E, has returned after its import of
\* the missing document failed.
C15_LoadedDespiteImport ==
    /\ LoadReturned("/E")
    /\ lcalls = 1
    /\ "failed to load schema" \in logged
    /\ "/G" \in DOMAIN loaded

\* C16: on a name clash the combined schema keeps the declaration of the
\* document reached first in load order.  Loading /C reaches /C, then /D,
\* then /H; /D and /H both define c:typeD, and the combined schema holds
\* the one of /D.
C16_FirstSeenKept ==
    (LoadReturned("/C") /\ lcalls = 1 /\ lresult.err = "") =>
        lresult.schema.TypeDefs["c:typeD"].self = Component("/D", "c:typeD")

\* A sequence that lists no value twice.
NoDuplicates(seq) == \A i, j \in 1..Len(seq) : seq[i] = seq[j] => i = j

\* C8: in the combined schema LoadSchemaWithImports returns, every
\* substitution-group bucket lists each member at most once.
C8_BucketsDeduplicated ==
    (lpc = "idle" /\ lresult.err = "") =>
        \A head \in DOMAIN lresult.schema.SubstitutionGroups :
            NoDuplicates(lresult.schema.SubstitutionGroups[head])

\* C9: no component reachable from a Schema a load call has returned is
\* written to by a later load call on the same loader.
C9_ReturnedSchemaReadOnly == dirty = {}

\* The documents whose loadSchemaRecursive call ends in an error after the
\* document has been parsed: one of their includes cannot be loaded.
IncludeFails(d) ==
    \E i \in 1..Len(Files[d].Includes) : Files[d].Includes[i] \notin DOMAIN Files

\* The documents the components of a schema were declared in.
Origins(schema) == {c[1] : c \in ReachableComponents(schema)}

\* C29: a document whose recursive load ended in an error is not retained
\* in sl.loaded, and the combined schema of this and of every later load
\* call holds no component of it.
C29_FailedLoadDropped ==
    (lpc = "idle" /\ lcalls >= 1) =>
        \A d \in DOMAIN Files :
            IncludeFails(d) =>
                /\ d \notin DOMAIN loaded
                /\ lresult.err = "" => d \notin Origins(lresult.schema)

\* The combined schema of the call that met the failing document: /I
\* imports /F, whose include cannot be loaded.
C29_ImportedFailureDropped ==
    (LoadReturned("/I") /\ lcalls = 1 /\ lresult.err = "") =>
        "/F" \notin Origins(lresult.schema)

\* The documents reachable from a set of documents through import and
\* include.
RECURSIVE ReachableDocs(_)
ReachableDocs(docs) ==
    LET next == docs \cup {l \in DOMAIN Files :
                              \E d \in docs : l \in Range(Files[d].Imports)
                                                    \cup Range(Files[d].Includes)}
    IN IF next = docs THEN docs ELSE ReachableDocs(next)

\* C30: the combined schema returned by LoadSchemaWithImports(X) holds only
\* components declared in X or in a document reachable from X, whatever
\* the loader has loaded before.
C30_OnlyReachableMerged ==
    (lpc = "idle" /\ lcalls >= 1 /\ lresult.err = "") =>
        Origins(lresult.schema) \subseteq ReachableDocs({lreq})

\* The same for the first call on a loader.
C30_OnFreshLoader ==
    (lpc = "idle" /\ lcalls = 1 /\ lresult.err = "") =>
        Origins(lresult.schema) \subseteq ReachableDocs({lreq})

\* ------------------------------------------------------------------------
\* The type-compatibility walk of the substitution-group check.
\* ------------------------------------------------------------------------

\* The type names of a schema; "" is a nil Type or an absent base.
TypeNames == {"A", "B", "C"}

\* What the base attribute of a complexContent extension can name: a type
\* of the schema, nothing, or a type the schema does not define.
Bases == TypeNames \cup {"", "Undefined"}

\* A walk that never finds a type already visited.
NeverRevisited(name, seen) == FALSE

\* visited[actualName]
Revisited(name, seen) == name \in seen

\* s.isTypeCompatible(actualType, expectedType) is called on some schema.
InitCompat ==
    /\ ResolveIdle
    /\ ValidateIdle
    /\ CompileIdle
    /\ LoaderIdle
    /\ MatchIdle
    /\ FacetIdle
    /\ WildcardIdle
    /\ OccursIdle
    /\ NormalizeIdle
    /\ TerminateIdle
    /\ CacheIdle
    /\ tTypeDefs \in [TypeNames -> Bases]
    /\ tStart \in TypeNames \cup {""}
    /\ tActual = tStart
    /\ tExpected \in TypeNames \cup {""}
    /\ tVisited = {}
    /\ tpc = "call"
    /\ tResult = FALSE

\* return v
CompatReturn(v) ==
    /\ tpc' = "done"
    /\ tResult' = v
    /\ UNCHANGED <<tTypeDefs, tStart, tActual, tExpected, notCompat>>

\* if actualType == nil || expectedType == nil { return false }
ReturnNil ==
    /\ tpc = "call"
    /\ tActual = "" \/ tExpected = ""
    /\ CompatReturn(FALSE)
    /\ UNCHANGED tVisited

\* if actualName == expectedName { return true }
ReturnSame ==
    /\ tpc = "call"
    /\ tActual # "" /\ tExpected # ""
    /\ tActual = tExpected
    /\ CompatReturn(TRUE)
    /\ UNCHANGED tVisited

\* if visited[actualName] { return false }
ReturnRevisited ==
    /\ tpc = "call"
    /\ tActual # "" /\ tExpected # ""
    /\ tActual # tExpected
    /\ Revisited(tActual, tVisited)
    /\ CompatReturn(FALSE)
    /\ UNCHANGED tVisited

\* baseType != nil: return s.isTypeCompatibleWithCycleDetection(baseType,
\* expectedType, visited)
WalkToBase ==
    /\ tpc = "call"
    /\ tActual # "" /\ tExpected # ""
    /\ tActual # tExpected
    /\ ~Revisited(tActual, tVisited)
    /\ tTypeDefs[tActual] \in DOMAIN tTypeDefs
    /\ tVisited' = tVisited \cup {tActual}
    /\ tActual' = tTypeDefs[tActual]
    /\ UNCHANGED <<tTypeDefs, tStart, tExpected, tpc, tResult, notCompat>>

\* No base, or a base s.TypeDefs does not hold: return false
ReturnNoBase ==
    /\ tpc = "call"
    /\ tActual # "" /\ tExpected # ""
    /\ tActual # tExpected
    /\ ~Revisited(tActual, tVisited)
    /\ tTypeDefs[tActual] \notin DOMAIN tTypeDefs
    /\ tVisited' = tVisited \cup {tActual}
    /\ CompatReturn(FALSE)

NextCompat ==
    \/ ReturnNil
    \/ ReturnSame
    \/ ReturnRevisited
    \/ WalkToBase
    \/ ReturnNoBase

SpecCompat == InitCompat /\ [][NextCompat]_vars

\* A call that can take a step takes it.
SpecCompatFair == SpecCompat /\ WF_vars(NextCompat)

\* The types on the chain of base links from a type, the type included.
RECURSIVE BaseChain(_, _, _)
BaseChain(type, defs, seen) ==
    IF type \notin DOMAIN defs \/ type \in seen THEN {}
    ELSE {type} \cup BaseChain(defs[type], defs, seen \cup {type})

\* What the walk has to return: true exactly when the expected type is on
\* the chain of base links of the actual type.
CompatResultRight ==
    tpc = "done" =>
        (tResult <=> (tExpected # "" /\ tExpected \in BaseChain(tStart, tTypeDefs, {})))

\* C13: the type-compatibility walk returns for every set of type
\* definitions, cyclic ones included, and it returns true only when the
\* expected type is on the chain of base links; a revisit returns false.
C13_CompatTerminates == []CompatResultRight /\ <>(tpc = "done")

\* The walk has come back to a type it had visited, and has returned false.
C13_ReturnedFromCycle ==
    /\ tpc = "done"
    /\ ~tResult
    /\ tActual \in tVisited
    /\ tTypeDefs[tActual] \in tVisited

============================================================================
